---- MODULE Spec2Model ----
(***************************************************************************)
(* Workforce-scheduling model compilers of the community apps:             *)
(*   - shift assignment (python-ortools-shiftassignment,                   *)
(*     python-pyomo-shiftassignment and their older copies):               *)
(*     convert_input merges availabilities and resolves rules, solve       *)
(*     builds variables, constraints, bounds and objective;                *)
(*   - shift planning (python-ortools-shiftplanning,                       *)
(*     python-pyomo-shiftplanning and their older copies):                 *)
(*     get_concrete_shifts, get_demand_coverage_periods and the models     *)
(*     built by solve of the OR-Tools and of the Pyomo app.                *)
(* Timestamps are whole hours counted from the start of the horizon; a     *)
(* timedelta of h hours is the integer h.  A Python dict is a function,    *)
(* an optional key is a field that is or is not in its DOMAIN, a list is   *)
(* a sequence.                                                             *)
(***************************************************************************)
EXTENDS Integers, Sequences, FiniteSets, TLC

VARIABLES
    availability,   \* merge spec: e["availability"] of one worker
    raw,            \* the availability as it was read: of the one worker (merge
                    \* spec), of every worker in input order (assignment)
    merged,         \* merge spec: number of times the merge step was applied
    pc,             \* assignment: position in solve
    workers,        \* assignment: input_data["workers"]
    shifts,         \* assignment: input_data["shifts"]
    rules,          \* assignment: input_data["rules"]
    rules_per_worker, \* assignment: worker id -> rule
    x_assign,       \* assignment: (worker id, shift id) -> bounds of the variable
    constraints,    \* assignment: constraints in the order they were added
    objective,      \* assignment: objective coefficients and sense
    pyomo_assign,   \* assignment: the model built by solve of the Pyomo app
    plan_pc,        \* planning: position in solve
    shift_templates, \* planning: input_data["shifts"]
    demands,        \* planning: input_data["demands"]
    concrete_shifts, \* planning: result of get_concrete_shifts
    periods,        \* planning: result of get_demand_coverage_periods
    input_options,  \* planning: input_data.get("options", {})
    ortools_model,  \* planning: the model built by solve of the OR-Tools app
    pyomo_model,    \* planning: the model built by solve of the Pyomo app
    app,            \* the app that runs: "ortools", "pyomo", or "both" when the
                    \* two apps of a kind are followed side by side
    provider,       \* options.provider
    as_read,        \* the input data as they were read
    timestamps,     \* the type of the timestamps in the input data: "str" as
                    \* read, "datetime" once converted
    calls,          \* the number of calls of solve with these input data
    solver_result,  \* what the solver returned: status and values
    output          \* the solution, value and status that solve returns

merge_vars == <<availability, raw, merged>>
assign_vars == <<pc, workers, shifts, rules, rules_per_worker, x_assign,
                 constraints, objective, pyomo_assign>>
plan_vars == <<plan_pc, shift_templates, demands, concrete_shifts, periods,
               input_options, ortools_model, pyomo_model>>
run_vars == <<app, provider, solver_result, output>>
input_vars == <<as_read, timestamps, calls>>
vars == <<merge_vars, assign_vars, plan_vars, run_vars, input_vars>>

(***************************************************************************)
(* Bounds                                                                  *)
(***************************************************************************)
MaxTime == 3        \* timestamps of the apps' inputs are 0..MaxTime
MaxMergeTime == 4   \* timestamps are 0..MaxMergeTime (merge spec)
MaxAvail == 3       \* availability entries of one worker (merge spec)
MaxMerges == 2      \* applications of the merge step (merge spec)
MaxWorkerAvail == 2 \* availability entries of a worker (assignment)
MaxAvailTime == 2   \* their timestamps are 0..MaxAvailTime
MaxShifts == 3      \* shifts of an assignment input
MaxRest == 2        \* min_rest_hours_between_shifts is 0..MaxRest
MaxPref == 1        \* preference weights are 0 or MaxPref
MaxRules == 2       \* rules of an assignment input, and their ids 1..MaxRules
MaxItems == 3       \* demands and template times of a planning input together
MaxTemplates == 2   \* templates of a planning input (expander inputs)
MaxSlots == 2       \* times of one template (expander inputs)
MaxPlanTime == 2    \* timestamps are 0..MaxPlanTime (coverage inputs)
MaxCalls == 2       \* calls of solve with the same input data
MaxPlanned == 2     \* a solution plans a shift 0..MaxPlanned times

\* The dicts with "start_time" and "end_time" in 0..n, start before end.
IntervalsUpTo(n) ==
    {iv \in [start_time : 0..n, end_time : 0..n] : iv.start_time < iv.end_time}

Intervals == IntervalsUpTo(MaxTime)

RECURSIVE SeqsUpTo(_, _)
\* All sequences over S of length at most n.
SeqsUpTo(S, n) ==
    IF n = 0 THEN {<<>>}
    ELSE LET shorter == SeqsUpTo(S, n - 1)
         IN  shorter \cup {Append(q, x) : q \in {r \in shorter : Len(r) = n - 1}, x \in S}

(***************************************************************************)
(* Interval merger: convert_input, "Merge availabilities of workers that   *)
(* start right where another one ends".                                    *)
(***************************************************************************)

\* As InsertByStart, but the key of the sort is the end of the entry.
InsertByEnd(x, sorted) ==
    LET before == {k \in 1..Len(sorted) : sorted[k].end_time <= x.end_time}
        n == Cardinality(before)
    IN  SubSeq(sorted, 1, n) \o <<x>> \o SubSeq(sorted, n + 1, Len(sorted))

\* Position of x in a list already sorted by start_time: behind every
\* element whose start is not later (sorted() is stable).
InsertByStart(x, sorted) ==
    LET before == {k \in 1..Len(sorted) : sorted[k].start_time <= x.start_time}
        n == Cardinality(before)
    IN  SubSeq(sorted, 1, n) \o <<x>> \o SubSeq(sorted, n + 1, Len(sorted))

RECURSIVE SortedByStart(_)
\* sorted(e["availability"], key=lambda x: x["start_time"])
SortedByStart(av) ==
    IF av = <<>> THEN <<>>
    ELSE InsertByStart(av[Len(av)], SortedByStart(SubSeq(av, 1, Len(av) - 1)))

\* del av[i + 1]
DeleteAt(av, k) == SubSeq(av, 1, k - 1) \o SubSeq(av, k + 1, Len(av))

RECURSIVE MergeScanAdvance(_, _)
\* As MergeScan, but the index moves on after a merge as well.
MergeScanAdvance(av, i) ==
    IF ~(i < Len(av)) THEN av
    ELSE IF av[i].end_time = av[i + 1].start_time
         THEN MergeScanAdvance(
                  DeleteAt([av EXCEPT ![i].end_time = av[i + 1].end_time], i + 1), i + 1)
         ELSE MergeScanAdvance(av, i + 1)

RECURSIVE MergeScanKeep(_, _)
\* As MergeScan, but the absorbed entry is not deleted.
MergeScanKeep(av, i) ==
    IF ~(i < Len(av)) THEN av
    ELSE IF av[i].end_time = av[i + 1].start_time
         THEN MergeScanKeep([av EXCEPT ![i].end_time = av[i + 1].end_time], i + 1)
         ELSE MergeScanKeep(av, i + 1)

RECURSIVE MergeScan(_, _)
\* The while loop; i is the 1-based position (the code's i + 1).
MergeScan(av, i) ==
    IF ~(i < Len(av)) THEN av
    ELSE IF av[i].end_time = av[i + 1].start_time
         THEN MergeScan(
                  DeleteAt([av EXCEPT ![i].end_time = av[i + 1].end_time], i + 1), i)
         ELSE MergeScan(av, i + 1)

\* The body of "for e in workers" for one availability list.
MergeAvailability(av) == MergeScan(SortedByStart(av), 1)

\* The optional fields of an input record: any subset of them, each
\* with the given value
OptionalFields(values) ==
    {[f \in fs |-> values[f]] : fs \in SUBSET DOMAIN values}

(***************************************************************************)
(* Shift assignment: convert_input                                         *)
(***************************************************************************)

\* d.get(key, default)
Get(d, key, default) == IF key \in DOMAIN d THEN d[key] ELSE default

\* d[key] = val
Put(d, key, val) == [k \in DOMAIN d \cup {key} |-> IF k = key THEN val ELSE d[k]]

\* As RuleDefaults, but the defaults replace the values of the rule.
RuleDefaultsAlways(r) == Put(Put(r, "min_shifts", 0), "max_shifts", 1000)

\* "Add default values for rules"
RuleDefaults(r) ==
    Put(Put(r, "min_shifts", Get(r, "min_shifts", 0)),
        "max_shifts", Get(r, "max_shifts", 1000))

\* As WorkerConverted, but the preferences are emptied.
WorkerConvertedNoPreferences(e) ==
    Put(Put(e, "preferences", <<>>),
        "availability", MergeAvailability(e.availability))

\* "Add default values for workers" and the merge of the availabilities
WorkerConverted(e) ==
    Put(Put(e, "preferences", Get(e, "preferences", <<>>)),
        "availability", MergeAvailability(e.availability))

\* [r for r in input_data.get("rules", {}) if r["id"] == e["rules"]]
RulesOf(rs, e) == SelectSeq(rs, LAMBDA r : r.id = e.rules)

\* The worker ids, as the keys of a dict built from the list
WorkerIds(ws) == {ws[k].id : k \in DOMAIN ws}

\* The last list entry with that id: a dict keeps the last value written
LastWithId(ws, id) ==
    ws[CHOOSE k \in DOMAIN ws :
           /\ ws[k].id = id
           /\ \A j \in DOMAIN ws : ws[j].id = id => j <= k]

\* As InvalidRule, but only a reference without any match is refused.
InvalidRuleMissingOnly(rs, e) == Len(RulesOf(rs, e)) = 0

\* if len(rule) != 1
InvalidRule(rs, e) == Len(RulesOf(rs, e)) # 1

\* The keys of SUPPORTED_PROVIDER_DURATIONS of the Pyomo apps
SUPPORTED_PROVIDER_DURATIONS == {"cbc", "glpk", "scip"}

\* As check_provider, but the rules are converted before the provider is
\* looked at.
check_provider_late ==
    /\ pc = "init"
    /\ \/ /\ app = "pyomo"
          /\ pc' = IF provider \in SUPPORTED_PROVIDER_DURATIONS
                   THEN "start" ELSE "unsupported"
          /\ rules' = IF provider \in SUPPORTED_PROVIDER_DURATIONS THEN rules
                      ELSE [k \in DOMAIN rules |-> RuleDefaults(rules[k])]
       \/ /\ app = "ortools"
          /\ \/ /\ pc' = "start"
                /\ UNCHANGED rules
             \/ /\ provider # "SCIP"
                /\ pc' = "unsupported"
                /\ rules' = [k \in DOMAIN rules |-> RuleDefaults(rules[k])]
    /\ UNCHANGED <<workers, shifts, rules_per_worker, x_assign,
                   constraints, objective, pyomo_assign>>
    /\ UNCHANGED <<merge_vars, plan_vars, run_vars, input_vars>>

\* The start of solve of an assignment app.  The Pyomo app raises a
\* ValueError for a provider outside its table.  The OR-Tools app calls
\* pywraplp.Solver.CreateSolver(options.provider), which returns a solver for
\* the default "SCIP" and a solver or None, as the library decides, for any
\* other identifier; None has no SetTimeLimit, so that the next line raises
\* an AttributeError.
check_provider ==
    /\ pc = "init"
    /\ \/ /\ app = "pyomo"
          /\ pc' = IF provider \in SUPPORTED_PROVIDER_DURATIONS
                   THEN "start" ELSE "unsupported"
       \/ /\ app = "ortools"
          /\ \/ pc' = "start"
             \/ /\ provider # "SCIP"
                /\ pc' = "unsupported"
    /\ UNCHANGED <<workers, shifts, rules, rules_per_worker, x_assign,
                   constraints, objective, pyomo_assign>>
    /\ UNCHANGED <<merge_vars, plan_vars, run_vars, input_vars>>

\* The input data of the assignment apps hold a timestamp.
HasTimestamps(ws, sh) ==
    sh # <<>> \/ \E k \in DOMAIN ws : ws[k].availability # <<>>

convert_input ==
    /\ pc = "start"
    /\ IF timestamps = "datetime" /\ HasTimestamps(workers, shifts)
       THEN \* datetime.fromisoformat of a datetime: TypeError, raised at the
            \* first timestamp and before any record is written
            /\ pc' = "type_error"
            /\ UNCHANGED <<workers, rules, rules_per_worker, timestamps>>
       ELSE LET rs == [k \in DOMAIN rules |-> RuleDefaults(rules[k])]
                ws == [k \in DOMAIN workers |-> WorkerConverted(workers[k])]
            IN  /\ timestamps' = "datetime"
                /\ rules' = rs
                /\ workers' = ws
                /\ IF \E k \in DOMAIN ws : InvalidRule(rs, ws[k])
                   THEN \* raise ValueError(f"Invalid rule for worker {e['id']}")
                        /\ pc' = "error"
                        /\ UNCHANGED rules_per_worker
                   ELSE /\ pc' = "converted"
                        /\ rules_per_worker' =
                               [id \in WorkerIds(ws) |->
                                   RulesOf(rs, LastWithId(ws, id))[1]]
    /\ UNCHANGED <<shifts, x_assign, constraints, objective, pyomo_assign>>
    /\ UNCHANGED <<merge_vars, plan_vars, run_vars, as_read, calls>>

\* solve is called once more with the input data of the call before, which
\* convert_input has converted in place.
solve_again ==
    /\ pc \in {"converted", "error", "type_error"}
    /\ calls < MaxCalls
    /\ calls' = calls + 1
    /\ pc' = "start"
    /\ rules_per_worker' = <<>>
    /\ UNCHANGED <<workers, shifts, rules, x_assign, constraints, objective,
                   pyomo_assign>>
    /\ UNCHANGED <<merge_vars, plan_vars, run_vars, as_read, timestamps>>

(***************************************************************************)
(* Shift assignment: the model built by solve                              *)
(***************************************************************************)

\* solver.BoolVar(...)
BoolVar == [lb |-> 0, ub |-> 1]

RECURSIVE SumOver(_, _)
\* sum(f(x) for x in list), f given as the list of its values
SumOver(list, n) == IF n = 0 THEN 0 ELSE list[n] + SumOver(list, n - 1)

RECURSIVE Flatten(_)
\* Concatenation of a sequence of sequences
Flatten(ss) == IF ss = <<>> THEN <<>> ELSE Head(ss) \o Flatten(Tail(ss))

\* As ShiftConstraints, but the required number is an upper limit.
ShiftConstraintsAtMost(ws, sh) ==
    [k \in DOMAIN sh |->
        [kind |-> "Shift", name |-> <<sh[k].id>>,
         terms |-> [j \in DOMAIN ws |-> <<ws[j].id, sh[k].id>>],
         sense |-> "<=", rhs |-> sh[k].count]]

\* "Each shift must have the required number of workers"
ShiftConstraints(ws, sh) ==
    [k \in DOMAIN sh |->
        [kind |-> "Shift", name |-> <<sh[k].id>>,
         terms |-> [j \in DOMAIN ws |-> <<ws[j].id, sh[k].id>>],
         sense |-> "==", rhs |-> sh[k].count]]

\* "Each worker must be assigned to at least their minimum number of shifts"
MinShiftConstraints(ws, sh, rpw) ==
    [j \in DOMAIN ws |->
        [kind |-> "worker", name |-> <<ws[j].id>>,
         terms |-> [k \in DOMAIN sh |-> <<ws[j].id, sh[k].id>>],
         sense |-> ">=", rhs |-> rpw[ws[j].id].min_shifts]]

\* "Each worker must be assigned to at most their maximum number of shifts"
MaxShiftConstraints(ws, sh, rpw) ==
    [j \in DOMAIN ws |->
        [kind |-> "worker", name |-> <<ws[j].id>>,
         terms |-> [k \in DOMAIN sh |-> <<ws[j].id, sh[k].id>>],
         sense |-> "<=", rhs |-> rpw[ws[j].id].max_shifts]]

\* As RestRespected, but only for shift1 before shift2.
RestRespectedOneWay(shift1, shift2, rest_time) ==
    shift1.end_time + rest_time < shift2.start_time

\* The condition under which the rest scan skips a pair of shifts
RestRespected(shift1, shift2, rest_time) ==
    \/ shift1.end_time + rest_time < shift2.start_time
    \/ shift2.end_time + rest_time < shift1.start_time

\* The constraint added for worker e and the pair (shift1, shift2)
RestConstraint(e, shift1, shift2) ==
    [kind |-> "Rest", name |-> <<e.id, shift1.id, shift2.id>>,
     terms |-> << <<e.id, shift1.id>>, <<e.id, shift2.id>> >>,
     sense |-> "<=", rhs |-> 1]

RECURSIVE RestScanBothOrders(_, _, _, _)
\* As RestScan, but skipping only the pairing of a shift with itself.
RestScanBothOrders(e, rest_time, sh, n) ==
    IF n >= Len(sh) * Len(sh) THEN <<>>
    ELSE LET s1 == (n \div Len(sh)) + 1
             s2 == (n % Len(sh)) + 1
             added == IF s1 = s2 THEN <<>>
                      ELSE IF RestRespected(sh[s1], sh[s2], rest_time) THEN <<>>
                      ELSE <<RestConstraint(e, sh[s1], sh[s2])>>
         IN  added \o RestScanBothOrders(e, rest_time, sh, n + 1)

RECURSIVE RestScan(_, _, _, _)
\* The two nested enumerate() loops over the shifts for worker e; n counts
\* the iterations of the inner body, s1 and s2 are the 1-based indices.
RestScan(e, rest_time, sh, n) ==
    IF n >= Len(sh) * Len(sh) THEN <<>>
    ELSE LET s1 == (n \div Len(sh)) + 1
             s2 == (n % Len(sh)) + 1
             added == IF s1 >= s2 THEN <<>>
                      ELSE IF RestRespected(sh[s1], sh[s2], rest_time) THEN <<>>
                      ELSE <<RestConstraint(e, sh[s1], sh[s2])>>
         IN  added \o RestScan(e, rest_time, sh, n + 1)

\* "Ensure that the minimum rest time between shifts is respected"
RestConstraints(ws, sh, rpw) ==
    Flatten([j \in DOMAIN ws |->
                RestScan(ws[j], rpw[ws[j].id].min_rest_hours_between_shifts, sh, 0)])

\* any(a["start_time"] <= s["start_time"] and a["end_time"] >= s["end_time"] ...)
Available(e, s) ==
    \E k \in DOMAIN e.availability :
        /\ e.availability[k].start_time <= s.start_time
        /\ e.availability[k].end_time >= s.end_time

\* As Unqualified, but a worker without a "qualifications" key passes.
UnqualifiedLenient(e, s) ==
    IF "qualification" \notin DOMAIN s \/ s.qualification = "" THEN FALSE
    ELSE IF "qualifications" \notin DOMAIN e THEN FALSE
    ELSE s.qualification \notin e.qualifications

\* The qualification loop reaches one of its two SetBounds(0, 0)
Unqualified(e, s) ==
    IF "qualification" \notin DOMAIN s \/ s.qualification = "" THEN FALSE
    ELSE IF "qualifications" \notin DOMAIN e THEN TRUE
    ELSE s.qualification \notin e.qualifications

\* As FixToZero, but the bounds of the other variables are set to [0, 1].
FixToZeroOnly(x, fixed) ==
    [key \in DOMAIN x |-> IF key \in fixed THEN [lb |-> 0, ub |-> 0] ELSE BoolVar]

\* x_assign[key].SetBounds(0, 0) for every key in fixed
FixToZero(x, fixed) ==
    [key \in DOMAIN x |-> IF key \in fixed THEN [lb |-> 0, ub |-> 0] ELSE x[key]]

\* As AssignVariables, but a variable is created for the eligible pairs only.
AssignVariablesEligibleOnly(ws, sh) ==
    LET pairs == {p \in (DOMAIN ws) \X (DOMAIN sh) :
                     /\ Available(ws[p[1]], sh[p[2]])
                     /\ ~Unqualified(ws[p[1]], sh[p[2]])}
        key(p) == <<ws[p[1]].id, sh[p[2]].id>>
    IN  [k \in {key(p) : p \in pairs} |-> BoolVar]

\* "Create binary variables indicating whether an worker is assigned to a
\* shift"
CreatedVariables(ws, sh) ==
    [k \in {<<ws[j].id, sh[n].id>> : j \in DOMAIN ws, n \in DOMAIN sh} |-> BoolVar]

\* The keys reached by the loop "Ensure that availabilities are respected"
UnavailableKeys(ws, sh) ==
    {<<ws[p[1]].id, sh[p[2]].id>> :
        p \in {q \in (DOMAIN ws) \X (DOMAIN sh) : ~Available(ws[q[1]], sh[q[2]])}}

\* The keys reached by the loop "Ensure that qualifications are respected"
UnqualifiedKeys(ws, sh) ==
    {<<ws[p[1]].id, sh[p[2]].id>> :
        p \in {q \in (DOMAIN ws) \X (DOMAIN sh) : Unqualified(ws[q[1]], sh[q[2]])}}

\* The variables after creation and the two bound-fixing loops
AssignVariables(ws, sh) ==
    FixToZero(FixToZero(CreatedVariables(ws, sh), UnavailableKeys(ws, sh)),
              UnqualifiedKeys(ws, sh))

\* The worker dict with that id
WorkerById(ws, id) == LastWithId(ws, id)

\* objective.SetCoefficient(...) for every pair with pref > 0
Objective(ws, sh) ==
    LET pref(key) == Get(WorkerById(ws, key[1]).preferences, key[2], 0)
        keys == {<<ws[j].id, sh[k].id>> : j \in DOMAIN ws, k \in DOMAIN sh}
    IN  [coefficients |-> [key \in {q \in keys : pref(q) > 0} |-> pref(key)],
         sense |-> "maximize"]

\* The constraints in the order they are added
Constraints(ws, sh, rpw) ==
    ShiftConstraints(ws, sh)
    \o MinShiftConstraints(ws, sh, rpw)
    \o MaxShiftConstraints(ws, sh, rpw)
    \o RestConstraints(ws, sh, rpw)

\* solve, pass by pass: the creation of the variables and the constraints
create_variables ==
    /\ pc = "converted"
    /\ x_assign' = CreatedVariables(workers, shifts)
    /\ constraints' = Constraints(workers, shifts, rules_per_worker)
    /\ pc' = "created"
    /\ UNCHANGED <<workers, shifts, rules, rules_per_worker, objective, pyomo_assign>>
    /\ UNCHANGED <<merge_vars, plan_vars, run_vars, input_vars>>

\* solve, pass by pass: "Ensure that availabilities are respected", before or
\* after the qualification pass
availability_pass ==
    /\ pc \in {"created", "qualification"}
    /\ x_assign' = FixToZero(x_assign, UnavailableKeys(workers, shifts))
    /\ pc' = IF pc = "created" THEN "availability" ELSE "masked"
    /\ UNCHANGED <<workers, shifts, rules, rules_per_worker, constraints,
                   objective, pyomo_assign>>
    /\ UNCHANGED <<merge_vars, plan_vars, run_vars, input_vars>>

\* solve, pass by pass: "Ensure that qualifications are respected", after or
\* before the availability pass
qualification_pass ==
    /\ pc \in {"created", "availability"}
    /\ x_assign' = FixToZero(x_assign, UnqualifiedKeys(workers, shifts))
    /\ pc' = IF pc = "created" THEN "qualification" ELSE "masked"
    /\ UNCHANGED <<workers, shifts, rules, rules_per_worker, constraints,
                   objective, pyomo_assign>>
    /\ UNCHANGED <<merge_vars, plan_vars, run_vars, input_vars>>

\* solve, pass by pass: the objective
set_objective ==
    /\ pc = "masked"
    /\ objective' = Objective(workers, shifts)
    /\ pc' = "built"
    /\ UNCHANGED <<workers, shifts, rules, rules_per_worker, x_assign,
                   constraints, pyomo_assign>>
    /\ UNCHANGED <<merge_vars, plan_vars, run_vars, input_vars>>

solve ==
    /\ app # "pyomo"
    /\ pc = "converted"
    /\ x_assign' = AssignVariables(workers, shifts)
    /\ constraints' = Constraints(workers, shifts, rules_per_worker)
    /\ objective' = Objective(workers, shifts)
    /\ pc' = "built"
    /\ UNCHANGED <<workers, shifts, rules, rules_per_worker, pyomo_assign>>
    /\ UNCHANGED <<merge_vars, plan_vars, run_vars, input_vars>>

(***************************************************************************)
(* Shift planning: convert_data, get_concrete_shifts and                   *)
(* get_demand_coverage_periods.  An id is a string, kept as the sequence   *)
(* of its characters.                                                      *)
(***************************************************************************)

\* d["qualification"] = d["qualification"] if "qualification" in d else ""
DemandConverted(d) == Put(d, "qualification", Get(d, "qualification", ""))

\* The start of solve of a planning app: as check_provider
plan_check_provider ==
    /\ plan_pc = "init"
    /\ \/ /\ app = "pyomo"
          /\ plan_pc' = IF provider \in SUPPORTED_PROVIDER_DURATIONS
                        THEN "start" ELSE "unsupported"
       \/ /\ app = "ortools"
          /\ \/ plan_pc' = "start"
             \/ /\ provider # "SCIP"
                /\ plan_pc' = "unsupported"
    /\ UNCHANGED <<shift_templates, demands, concrete_shifts, periods>>
    /\ UNCHANGED <<input_options, ortools_model, pyomo_model>>
    /\ UNCHANGED <<merge_vars, assign_vars, run_vars, input_vars>>

\* The input data of the planning apps hold a timestamp.
HasPlanTimestamps(templates, ds) ==
    ds # <<>> \/ \E k \in DOMAIN templates : templates[k].times # <<>>

convert_data ==
    /\ plan_pc = "start"
    /\ IF timestamps = "datetime" /\ HasPlanTimestamps(shift_templates, demands)
       THEN \* datetime.fromisoformat of a datetime: TypeError
            /\ plan_pc' = "type_error"
            /\ UNCHANGED <<demands, timestamps>>
       ELSE /\ timestamps' = "datetime"
            /\ demands' = [k \in DOMAIN demands |-> DemandConverted(demands[k])]
            /\ plan_pc' = "converted"
    /\ UNCHANGED <<shift_templates, concrete_shifts, periods>>
    /\ UNCHANGED <<input_options, ortools_model, pyomo_model>>
    /\ UNCHANGED <<merge_vars, assign_vars, run_vars, as_read, calls>>

(***************************************************************************)
(* Shift assignment: the model built by solve of the Pyomo app.  The ids   *)
(* of the workers and of the shifts are distinct.                          *)
(***************************************************************************)

\* A member of pyo.Var(..., within=pyo.Binary)
PyomoBinary == [lb |-> 0, ub |-> 1, fixed |-> FALSE]

\* model.x_assign[key].fix(0) for every key in fixed
PyomoFix(x, fixed) ==
    [key \in DOMAIN x |->
        IF key \in fixed THEN [lb |-> 0, ub |-> 1, fixed |-> TRUE] ELSE x[key]]

\* model.x_assign after creation and the two loops that fix variables
PyomoAssignVariables(ws, sh) ==
    PyomoFix(PyomoFix([key \in DOMAIN CreatedVariables(ws, sh) |-> PyomoBinary],
                      UnavailableKeys(ws, sh)),
             UnqualifiedKeys(ws, sh))

\* The names of the components: Shift_<id>, worker_<id>_min, worker_<id>_max,
\* Rest_<id>_<id>_<id>
PyomoConstraints(ws, sh, rpw) ==
    LET cs == Constraints(ws, sh, rpw)
    IN  [n \in DOMAIN cs |->
            IF cs[n].kind = "worker"
            THEN [cs[n] EXCEPT !.name =
                     @ \o <<IF cs[n].sense = ">=" THEN "min" ELSE "max">>]
            ELSE cs[n]]

\* sum(e["preferences"].get(s["id"], 0) * model.x_assign[...] ...), maximised
PyomoObjective(ws, sh) ==
    [coefficients |->
        [key \in {<<ws[j].id, sh[k].id>> : j \in DOMAIN ws, k \in DOMAIN sh} |->
            Get(WorkerById(ws, key[1]).preferences, key[2], 0)],
     sense |-> "maximize"]

\* The part of solve of the Pyomo app that follows convert_input, up to the
\* creation of the solver
solve_pyomo_assignment ==
    /\ app # "ortools"
    /\ pc \in {"converted", "built"}
    /\ pyomo_assign = <<>>
    /\ pyomo_assign' =
           [x_assign |-> PyomoAssignVariables(workers, shifts),
            constraints |-> PyomoConstraints(workers, shifts, rules_per_worker),
            objective |-> PyomoObjective(workers, shifts)]
    /\ UNCHANGED <<pc, workers, shifts, rules, rules_per_worker, x_assign,
                   constraints, objective>>
    /\ UNCHANGED <<merge_vars, plan_vars, run_vars, input_vars>>

(***************************************************************************)
(* Shift assignment: the call of the solver and the conversion of its      *)
(* result.  The solver is a library: what it returns is any status         *)
(* without values, or -- when the model has a solution -- "feasible" with  *)
(* any solution or "optimal" with a best one.  A value that may be None    *)
(* is kept as a sequence: <<>> for None, <<v>> for the number v.           *)
(***************************************************************************)

RECURSIVE SetSum(_, _)
\* The sum of f over the set S
SetSum(f, S) ==
    IF S = {} THEN 0
    ELSE LET k == CHOOSE k \in S : TRUE
         IN  f[k] + SetSum(f, S \ {k})

\* A constraint of an assignment model holds for the values val.
Satisfies(c, val) ==
    LET lhs == SumOver([n \in DOMAIN c.terms |-> val[c.terms[n]]], Len(c.terms))
    IN  CASE c.sense = "==" -> lhs = c.rhs
          [] c.sense = "<=" -> lhs <= c.rhs
          [] c.sense = ">=" -> lhs >= c.rhs

\* The value of an objective for the values val
ObjectiveValue(obj, val) ==
    SetSum([key \in DOMAIN obj.coefficients |-> obj.coefficients[key] * val[key]],
           DOMAIN obj.coefficients)

\* The solutions of the model of the OR-Tools app
OrtoolsSolutions(x, cs) ==
    {val \in [DOMAIN x -> {0, 1}] :
        /\ \A key \in DOMAIN x : x[key].lb <= val[key] /\ val[key] <= x[key].ub
        /\ \A n \in DOMAIN cs : Satisfies(cs[n], val)}

\* The solutions of the model of the Pyomo app
PyomoSolutions(x, cs) ==
    {val \in [DOMAIN x -> {0, 1}] :
        /\ \A key \in DOMAIN x : x[key].fixed => val[key] = 0
        /\ \A n \in DOMAIN cs : Satisfies(cs[n], val)}

\* The solutions for which a maximised objective is largest
Best(sols, obj) ==
    {v \in sols : \A u \in sols : ObjectiveValue(obj, u) <= ObjectiveValue(obj, v)}

\* What a solver can return: optimal and feasible name the statuses that
\* come with values, others those that come without; the status infeasible
\* is returned for a model without solution only.
Outcomes(sols, best, optimal, feasible, infeasible, others) ==
    {[status |-> optimal, values |-> v] : v \in best}
    \cup {[status |-> feasible, values |-> v] : v \in sols}
    \cup {[status |-> st, values |-> <<>>] : st \in others}
    \cup (IF sols = {} THEN {[status |-> infeasible, values |-> <<>>]} ELSE {})

\* As STATUS, without the entry for UNBOUNDED.
STATUSWithoutUnbounded ==
    [FEASIBLE |-> "suboptimal", INFEASIBLE |-> "infeasible", OPTIMAL |-> "optimal"]

\* STATUS of the OR-Tools assignment app
STATUS ==
    [FEASIBLE |-> "suboptimal", INFEASIBLE |-> "infeasible", OPTIMAL |-> "optimal",
     UNBOUNDED |-> "unbounded"]

\* STATUS of the Pyomo apps, by termination condition
PyomoSTATUS ==
    [feasible |-> "suboptimal", infeasible |-> "infeasible", optimal |-> "optimal",
     unbounded |-> "unbounded"]

\* The list "assigned_shifts": the pairs with a value above 0.5, workers in
\* the outer and shifts in the inner loop
AssignedShifts(ws, sh, val) ==
    Flatten([j \in DOMAIN ws |->
        Flatten([k \in DOMAIN sh |->
            IF 2 * val[<<ws[j].id, sh[k].id>>] > 1
            THEN <<[start_time |-> sh[k].start_time, end_time |-> sh[k].end_time,
                    worker_id |-> ws[j].id, shift_id |-> sh[k].id]>>
            ELSE <<>>])])

\* len({s["worker_id"] for s in schedule["assigned_shifts"]})
ActiveWorkers(assigned) ==
    Cardinality({assigned[n].worker_id : n \in DOMAIN assigned})

\* "Convert to solution format" and the output of the OR-Tools app
OrtoolsAssignmentOutput(result, ws, sh, obj) ==
    LET has_solution == result.status = "OPTIMAL" \/ result.status = "FEASIBLE"
        assigned == AssignedShifts(ws, sh, result.values)
    IN  [solution |-> IF has_solution THEN [assigned_shifts |-> assigned] ELSE <<>>,
         value |-> IF has_solution THEN <<ObjectiveValue(obj, result.values)>>
                   ELSE <<>>,
         status |-> Get(STATUS, result.status, "unknown"),
         active_workers |-> IF has_solution THEN ActiveWorkers(assigned) ELSE 0,
         total_workers |-> IF has_solution THEN Len(ws) ELSE 0]

\* The rest of solve of the OR-Tools app: solver.Solve() and the conversion
\* of its result
ortools_assignment_result ==
    /\ app = "ortools"
    /\ pc = "built"
    /\ LET sols == OrtoolsSolutions(x_assign, constraints)
       IN  \E result \in Outcomes(sols, Best(sols, objective), "OPTIMAL", "FEASIBLE",
                                   "INFEASIBLE", {"UNBOUNDED", "ABNORMAL", "NOT_SOLVED"}) :
               /\ solver_result' = result
               /\ output' = OrtoolsAssignmentOutput(result, workers, shifts, objective)
    /\ pc' = "returned"
    /\ UNCHANGED <<workers, shifts, rules, rules_per_worker, x_assign,
                   constraints, objective, pyomo_assign>>
    /\ UNCHANGED <<merge_vars, plan_vars, app, provider, input_vars>>

\* if value: neither None nor 0
Truthy(value) == value # <<>> /\ value[1] # 0

\* "Convert to solution format" and the output of the Pyomo app; value is
\* pyo.value(model.objective, exception=False)
PyomoAssignmentOutput(result, value, ws, sh) ==
    LET assigned == AssignedShifts(ws, sh, result.values)
    IN  [solution |-> IF Truthy(value) THEN [assigned_shifts |-> assigned] ELSE <<>>,
         value |-> value,
         status |-> Get(PyomoSTATUS, result.status, "unknown"),
         active_workers |-> IF Truthy(value) THEN ActiveWorkers(assigned) ELSE 0,
         total_workers |-> IF Truthy(value) THEN Len(ws) ELSE 0]

\* The rest of solve of the Pyomo app: solver.solve(model) and the conversion
\* of its result.  Without a solution the variables that are not fixed have
\* no value, and the value of the objective is then None or, when the library
\* can do without them, 0.
pyomo_assignment_result ==
    /\ app = "pyomo"
    /\ pc = "converted"
    /\ pyomo_assign # <<>>
    /\ LET sols == PyomoSolutions(pyomo_assign.x_assign, pyomo_assign.constraints)
       IN  \E result \in Outcomes(sols, Best(sols, pyomo_assign.objective),
                                   "optimal", "feasible", "infeasible",
                                   {"unbounded", "maxTimeLimit", "other"}) :
           \E value \in IF result.values = <<>> THEN {<<>>, <<0>>}
                         ELSE {<<ObjectiveValue(pyomo_assign.objective,
                                                result.values)>>} :
               /\ solver_result' = result
               /\ output' = PyomoAssignmentOutput(result, value, workers, shifts)
    /\ pc' = "returned"
    /\ UNCHANGED <<workers, shifts, rules, rules_per_worker, x_assign,
                   constraints, objective, pyomo_assign>>
    /\ UNCHANGED <<merge_vars, plan_vars, app, provider, input_vars>>

\* solve is called once more with the input data of the call before, which
\* convert_data has converted in place.
plan_again ==
    /\ plan_pc \in {"converted", "type_error"}
    /\ calls < MaxCalls
    /\ calls' = calls + 1
    /\ plan_pc' = "start"
    /\ UNCHANGED <<shift_templates, demands, concrete_shifts, periods>>
    /\ UNCHANGED <<input_options, ortools_model, pyomo_model>>
    /\ UNCHANGED <<merge_vars, assign_vars, run_vars, as_read, timestamps>>

\* A time of a template has a cost of its own or the template has one.
HasCost(shift, time) == "cost" \in DOMAIN time \/ "cost" \in DOMAIN shift

\* As ConcreteShift, but a value of the template wins over a value of the time.
ConcreteShiftTemplateFirst(shift, time) ==
    [id |-> shift.id \o <<"_">> \o time.id,
     shift_id |-> shift.id,
     time_id |-> time.id,
     start_time |-> time.start_time,
     end_time |-> time.end_time,
     min_workers |-> IF "min_workers" \in DOMAIN shift THEN shift.min_workers
                     ELSE IF "min_workers" \in DOMAIN time THEN time.min_workers
                     ELSE 0,
     max_workers |-> IF "max_workers" \in DOMAIN shift THEN shift.max_workers
                     ELSE IF "max_workers" \in DOMAIN time THEN time.max_workers
                     ELSE -1,
     cost |-> IF "cost" \in DOMAIN shift THEN shift.cost ELSE time.cost,
     qualification |-> IF "qualification" \in DOMAIN shift THEN shift.qualification
                       ELSE ""]

\* One entry of the list comprehension of get_concrete_shifts
ConcreteShift(shift, time) ==
    [id |-> shift.id \o <<"_">> \o time.id,
     shift_id |-> shift.id,
     time_id |-> time.id,
     start_time |-> time.start_time,
     end_time |-> time.end_time,
     min_workers |-> IF "min_workers" \in DOMAIN time THEN time.min_workers
                     ELSE IF "min_workers" \in DOMAIN shift THEN shift.min_workers
                     ELSE 0,
     max_workers |-> IF "max_workers" \in DOMAIN time THEN time.max_workers
                     ELSE IF "max_workers" \in DOMAIN shift THEN shift.max_workers
                     ELSE -1,
     cost |-> IF "cost" \in DOMAIN time THEN time.cost ELSE shift.cost,
     qualification |-> IF "qualification" \in DOMAIN shift THEN shift.qualification
                       ELSE ""]

\* As ConcreteShifts, but only the first time of every template is expanded.
ConcreteShiftsFirstTime(templates) ==
    Flatten([t \in DOMAIN templates |->
                [k \in DOMAIN templates[t].times \cap {1} |->
                    ConcreteShift(templates[t], templates[t].times[k])]])

\* As ConcreteShifts, but a time without any cost is left out.
ConcreteShiftsWithCost(templates) ==
    Flatten([t \in DOMAIN templates |->
                LET priced == SelectSeq(templates[t].times,
                                        LAMBDA time : HasCost(templates[t], time))
                IN  [k \in DOMAIN priced |-> ConcreteShift(templates[t], priced[k])]])

\* for shift in shifts for time in shift["times"]
ConcreteShifts(templates) ==
    Flatten([t \in DOMAIN templates |->
                [k \in DOMAIN templates[t].times |->
                    ConcreteShift(templates[t], templates[t].times[k])]])

\* As get_concrete_shifts, but a time without any cost is skipped silently.
get_concrete_shifts_skipping ==
    /\ plan_pc = "converted"
    /\ concrete_shifts' = ConcreteShiftsWithCost(shift_templates)
    /\ plan_pc' = "expanded"
    /\ UNCHANGED <<shift_templates, demands, periods>>
    /\ UNCHANGED <<input_options, ortools_model, pyomo_model>>
    /\ UNCHANGED <<merge_vars, assign_vars, run_vars, input_vars>>

get_concrete_shifts ==
    /\ plan_pc = "converted"
    /\ IF \A t \in DOMAIN shift_templates : \A k \in DOMAIN shift_templates[t].times :
              HasCost(shift_templates[t], shift_templates[t].times[k])
       THEN /\ concrete_shifts' = ConcreteShifts(shift_templates)
            /\ plan_pc' = "expanded"
       ELSE \* KeyError: 'cost'
            /\ plan_pc' = "error"
            /\ UNCHANGED concrete_shifts
    /\ UNCHANGED <<shift_templates, demands, periods>>
    /\ UNCHANGED <<input_options, ortools_model, pyomo_model>>
    /\ UNCHANGED <<merge_vars, assign_vars, run_vars, input_vars>>

RECURSIVE Distinct(_)
\* The keys of a dict filled in list order: every value once, by first appearance
Distinct(list) ==
    IF list = <<>> THEN <<>>
    ELSE LET front == Distinct(SubSeq(list, 1, Len(list) - 1))
             last == list[Len(list)]
         IN  IF \E k \in DOMAIN front : front[k] = last THEN front
             ELSE Append(front, last)

\* The keys of demands_per_qualification, in insertion order
Qualifications(ds) ==
    Distinct([k \in DOMAIN ds |-> Get(ds[k], "qualification", "")])

\* demands_per_qualification[q]
DemandsOf(ds, q) == SelectSeq(ds, LAMBDA d : Get(d, "qualification", "") = q)

\* As ShiftsOf, but without the test of the qualification.
ShiftsOfAny(cs, q) == cs

\* shifts_per_qualification[q]
ShiftsOf(cs, q) == SelectSeq(cs, LAMBDA s : q = s.qualification)

\* As BoundaryTimes, but with the times of the demands only.
BoundaryTimesDemandsOnly(ds, cs) ==
    {ds[k].start_time : k \in DOMAIN ds} \cup {ds[k].end_time : k \in DOMAIN ds}

\* The set "times" of qualification q
BoundaryTimes(ds, cs) ==
    {ds[k].start_time : k \in DOMAIN ds} \cup {ds[k].end_time : k \in DOMAIN ds}
    \cup {cs[k].start_time : k \in DOMAIN cs} \cup {cs[k].end_time : k \in DOMAIN cs}

RECURSIVE SortedTimes(_)
\* sorted(times)
SortedTimes(ts) ==
    IF ts = {} THEN <<>>
    ELSE LET first == CHOOSE t \in ts : \A u \in ts : t <= u
         IN  <<first>> \o SortedTimes(ts \ {first})

\* any(list_of_dicts): some entry is a non-empty dict
AnyTruthy(list) == \E k \in DOMAIN list : DOMAIN list[k] # {}

\* y["start_time"] <= start and y["end_time"] >= end
Contains(y, start, end) == y.start_time <= start /\ y.end_time >= end

\* As PeriodAt, but a period without contributing demands is kept.
PeriodAtKeepAll(q, ds, cs, times, i) ==
    LET start == times[i]
        end == times[i + 1]
    IN  <<[start_time |-> start, end_time |-> end, qualification |-> q,
           covering_shifts |-> SelectSeq(cs, LAMBDA s : Contains(s, start, end)),
           demands |-> SelectSeq(ds, LAMBDA d : Contains(d, start, end))]>>

\* As PeriodAt, but every shift of the qualification counts as covering.
PeriodAtAnyShift(q, ds, cs, times, i) ==
    LET start == times[i]
        end == times[i + 1]
        contributing_demands == SelectSeq(ds, LAMBDA d : Contains(d, start, end))
    IN  IF ~AnyTruthy(contributing_demands) THEN <<>>
        ELSE <<[start_time |-> start, end_time |-> end, qualification |-> q,
                covering_shifts |-> cs,
                demands |-> contributing_demands]>>

\* The body of "for i in range(len(times) - 1)": no period or one period
PeriodAt(q, ds, cs, times, i) ==
    LET start == times[i]
        end == times[i + 1]
        covering_shifts == SelectSeq(cs, LAMBDA s : Contains(s, start, end))
        contributing_demands == SelectSeq(ds, LAMBDA d : Contains(d, start, end))
    IN  IF ~AnyTruthy(contributing_demands) THEN <<>>
        ELSE <<[start_time |-> start, end_time |-> end, qualification |-> q,
                covering_shifts |-> covering_shifts,
                demands |-> contributing_demands]>>

\* The periods of one qualification, in the order of the timeline
PeriodsOf(q, ds, cs) ==
    LET times == SortedTimes(BoundaryTimes(ds, cs))
    IN  Flatten([i \in 1..(Len(times) - 1) |-> PeriodAt(q, ds, cs, times, i)])

\* get_demand_coverage_periods(concrete_shifts, demands)
DemandCoveragePeriods(cs, ds) ==
    LET qs == Qualifications(ds)
    IN  Flatten([n \in DOMAIN qs |->
                    PeriodsOf(qs[n], DemandsOf(ds, qs[n]), ShiftsOf(cs, qs[n]))])

get_demand_coverage_periods ==
    /\ plan_pc = "expanded"
    /\ periods' = DemandCoveragePeriods(concrete_shifts, demands)
    /\ plan_pc' = "decomposed"
    /\ UNCHANGED <<shift_templates, demands, concrete_shifts>>
    /\ UNCHANGED <<input_options, ortools_model, pyomo_model>>
    /\ UNCHANGED <<merge_vars, assign_vars, run_vars, input_vars>>

(***************************************************************************)
(* Shift planning: the models built by solve of the OR-Tools and of the    *)
(* Pyomo app from the concrete shifts and the periods.  A variable is      *)
(* named by a tuple: <<"x_assign", id>>, <<"x_under", n>> for the n-th     *)
(* period, <<"underSupply">>, <<"overSupply">>, <<"shift_cost">>.  A       *)
(* constraint reads  sum(terms) sense sum(rhs_terms) + rhs.                *)
(***************************************************************************)

\* solver.infinity(), and the upper bound of a Pyomo variable without one:
\* above every number of workers of the model
Infinity == 1000000

\* (p.end_time - p.start_time).seconds / 3600: the days of a timedelta are
\* not part of its seconds
HoursOf(y) == (y.end_time - y.start_time) % 24

\* sum(d["count"] for d in p.demands)
DemandCount(p) == SumOver([k \in DOMAIN p.demands |-> p.demands[k].count],
                          Len(p.demands))

\* required_hours
RequiredHours(ps) == SumOver([n \in DOMAIN ps |-> HoursOf(ps[n])], Len(ps))

\* The last concrete shift with that id: x_assign[s["id"]] keeps the last
\* variable stored under a key
LastConcrete(cs, id) ==
    cs[CHOOSE k \in DOMAIN cs :
           /\ cs[k].id = id
           /\ \A j \in DOMAIN cs : cs[j].id = id => j <= k]

\* x_assign of the OR-Tools app: solver.IntVar(min_workers, max_workers or
\* infinity) stored under the id of the concrete shift
PlannedVariables(cs) ==
    [id \in {cs[k].id : k \in DOMAIN cs} |->
        LET s == LastConcrete(cs, id)
        IN  [lb |-> s.min_workers,
             ub |-> IF s.max_workers >= 0 THEN s.max_workers ELSE Infinity,
             integer |-> TRUE]]

\* x_assign of the Pyomo app: NonNegativeIntegers, then setlb and, for a
\* max_workers that is not negative, setub, once for every concrete shift
PyomoPlannedVariables(cs) ==
    [id \in {cs[k].id : k \in DOMAIN cs} |->
        LET s == LastConcrete(cs, id)
            with_ub == {k \in DOMAIN cs : cs[k].id = id /\ cs[k].max_workers >= 0}
            last_ub == CHOOSE k \in with_ub : \A j \in with_ub : j <= k
        IN  [lb |-> s.min_workers,
             ub |-> IF with_ub = {} THEN Infinity ELSE cs[last_ub].max_workers,
             integer |-> TRUE]]

\* The variables x_under, one for every period, when an under-supply cost is
\* configured
UnderVariables(ps, opts, integer) ==
    IF "under_supply_cost" \in DOMAIN opts
    THEN [n \in DOMAIN ps |-> [lb |-> 0, ub |-> Infinity, integer |-> integer]]
    ELSE <<>>

\* underSupply, overSupply and shift_cost, as far as they are created
CostVariables(opts, integer) ==
    LET names == (IF "under_supply_cost" \in DOMAIN opts THEN {"underSupply"} ELSE {})
                 \cup (IF "over_supply_cost" \in DOMAIN opts THEN {"overSupply"} ELSE {})
                 \cup {"shift_cost"}
    IN  [v \in names |-> [lb |-> 0, ub |-> Infinity, integer |-> integer]]

\* One term of a linear expression
Term(coef, var) == [coef |-> coef, var |-> var]

\* solver.Sum([x_assign[s["id"]] for s in p.covering_shifts])
CoveringSum(p) ==
    [k \in DOMAIN p.covering_shifts |->
        Term(1, <<"x_assign", p.covering_shifts[k].id>>)]

\* The name of the constraint of a period
DemandCoverName(p) == <<"DemandCover", p.start_time, p.end_time, p.qualification>>

\* As DemandCover, but the shifts may supply more than is demanded.
DemandCoverAtLeast(p, n, opts) ==
    [name |-> DemandCoverName(p),
     terms |-> CoveringSum(p)
               \o (IF "under_supply_cost" \in DOMAIN opts
                   THEN <<Term(1, <<"x_under", n>>)>> ELSE <<>>),
     sense |-> ">=", rhs_terms |-> <<>>, rhs |-> DemandCount(p)]

\* OR-Tools: "We need to make sure that all demands are covered (or track
\* under supply)", for the n-th period p
DemandCover(p, n, opts) ==
    [name |-> DemandCoverName(p),
     terms |-> CoveringSum(p)
               \o (IF "under_supply_cost" \in DOMAIN opts
                   THEN <<Term(1, <<"x_under", n>>)>> ELSE <<>>),
     sense |-> "==", rhs_terms |-> <<>>, rhs |-> DemandCount(p)]

\* Pyomo: the constraint added for the period p
PyomoDemandCover(p) ==
    [name |-> DemandCoverName(p),
     terms |-> CoveringSum(p),
     sense |-> "==", rhs_terms |-> <<>>, rhs |-> DemandCount(p)]

\* "Track under supply"
UnderSupplyTrack(name, ps) ==
    [name |-> <<name>>,
     terms |-> <<Term(1, <<"underSupply">>)>>,
     sense |-> "==",
     rhs_terms |-> [n \in DOMAIN ps |-> Term(HoursOf(ps[n]), <<"x_under", n>>)],
     rhs |-> 0]

\* "Track over supply"
OverSupplyTrack(name, cs, ps) ==
    [name |-> <<name>>,
     terms |-> <<Term(1, <<"overSupply">>)>>,
     sense |-> "==",
     rhs_terms |-> [k \in DOMAIN cs |-> Term(HoursOf(cs[k]), <<"x_assign", cs[k].id>>)],
     rhs |-> 0 - RequiredHours(ps)]

\* "Track shift cost"
ShiftCostTrack(name, cs) ==
    [name |-> <<name>>,
     terms |-> <<Term(1, <<"shift_cost">>)>>,
     sense |-> "==",
     rhs_terms |-> [k \in DOMAIN cs |-> Term(cs[k].cost, <<"x_assign", cs[k].id>>)],
     rhs |-> 0]

\* The constraints that follow those of the periods
TrackConstraints(names, cs, ps, opts) ==
    (IF "under_supply_cost" \in DOMAIN opts
     THEN <<UnderSupplyTrack(names[1], ps)>> ELSE <<>>)
    \o (IF "over_supply_cost" \in DOMAIN opts
        THEN <<OverSupplyTrack(names[2], cs, ps)>> ELSE <<>>)
    \o <<ShiftCostTrack(names[3], cs)>>

\* OR-Tools: obj_expr, minimised
PlanObjective(opts) ==
    [terms |-> (IF "under_supply_cost" \in DOMAIN opts
                THEN <<Term(opts.under_supply_cost, <<"underSupply">>)>> ELSE <<>>)
               \o (IF "over_supply_cost" \in DOMAIN opts
                   THEN <<Term(opts.over_supply_cost, <<"overSupply">>)>> ELSE <<>>)
               \o <<Term(1, <<"shift_cost">>)>>,
     sense |-> "minimize"]

\* Pyomo: obj_expr, minimised
PyomoPlanObjective(ps, opts) ==
    [terms |-> (IF "under_supply_cost" \in DOMAIN opts
                THEN [n \in DOMAIN ps |->
                         Term(opts.under_supply_cost, <<"x_under", n>>)]
                ELSE <<>>)
               \o (IF "over_supply_cost" \in DOMAIN opts
                   THEN <<Term(opts.over_supply_cost, <<"overSupply">>)>> ELSE <<>>)
               \o <<Term(1, <<"shift_cost">>)>>,
     sense |-> "minimize"]

\* The part of solve of the OR-Tools app that follows the preparation of the
\* data, up to the call of the solver
solve_ortools ==
    /\ app # "pyomo"
    /\ plan_pc = "decomposed"
    /\ ortools_model = <<>>
    /\ ortools_model' =
           [x_assign |-> PlannedVariables(concrete_shifts),
            x_under |-> UnderVariables(periods, input_options, FALSE),
            cost_variables |-> CostVariables(input_options, FALSE),
            objective |-> PlanObjective(input_options),
            constraints |->
                [n \in DOMAIN periods |-> DemandCover(periods[n], n, input_options)]
                \o TrackConstraints(<<"UnderSupply", "OverSupply", "ShiftCost">>,
                                    concrete_shifts, periods, input_options)]
    /\ UNCHANGED <<plan_pc, shift_templates, demands, concrete_shifts, periods,
                   input_options, pyomo_model>>
    /\ UNCHANGED <<merge_vars, assign_vars, run_vars, input_vars>>

\* Two concrete shifts have the same id.
RepeatedId(cs) == \E k \in DOMAIN cs : \E j \in DOMAIN cs : k # j /\ cs[k].id = cs[j].id

\* The part of solve of the Pyomo app that follows the preparation of the
\* data, up to the creation of the solver.  What pyo.Var does with an index
\* that is listed twice is decided by the library: it fails or it keeps one
\* variable.
solve_pyomo ==
    /\ app # "ortools"
    /\ plan_pc = "decomposed"
    /\ pyomo_model = <<>>
    /\ \/ /\ RepeatedId(concrete_shifts)
          /\ pyomo_model' = [error |-> "x_assign"]
       \/ pyomo_model' =
              [x_assign |-> PyomoPlannedVariables(concrete_shifts),
               x_under |-> UnderVariables(periods, input_options, TRUE),
               cost_variables |-> CostVariables(input_options, TRUE),
               objective |-> PyomoPlanObjective(periods, input_options),
               constraints |->
                   [n \in DOMAIN periods |-> PyomoDemandCover(periods[n])]
                   \o TrackConstraints(<<"under_supply", "over_supply",
                                         "shift_cost_track">>,
                                       concrete_shifts, periods, input_options)]
    /\ UNCHANGED <<plan_pc, shift_templates, demands, concrete_shifts, periods,
                   input_options, ortools_model>>
    /\ UNCHANGED <<merge_vars, assign_vars, run_vars, input_vars>>

(***************************************************************************)
(* Shift planning: the call of the solver and the conversion of its        *)
(* result.  A solution gives a count to every variable x_assign and        *)
(* x_under; the variables underSupply, overSupply and shift_cost take the  *)
(* value that the constraint tracking them leaves them.  Counts up to      *)
(* MaxPlanned are followed.                                                *)
(***************************************************************************)

\* The value of a variable of a planning model
ValueOf(var, val) ==
    CASE var[1] = "x_assign" -> val.x_assign[var[2]]
      [] var[1] = "x_under" -> val.x_under[var[2]]
      [] OTHER -> val.cost[var[1]]

\* The value of a linear expression
ExprValue(terms, val) ==
    SumOver([n \in DOMAIN terms |-> terms[n].coef * ValueOf(terms[n].var, val)],
            Len(terms))

\* The constraint that tracks the cost variable v
TrackOf(model, v) ==
    model.constraints[CHOOSE n \in DOMAIN model.constraints :
                          model.constraints[n].terms = <<Term(1, <<v>>)>>]

\* The counts val of x_assign and x_under, with the values of the cost
\* variables that follow from them
WithCosts(model, val) ==
    [x_assign |-> val.x_assign,
     x_under |-> val.x_under,
     cost |-> [v \in DOMAIN model.cost_variables |->
                  LET c == TrackOf(model, v)
                  IN  ExprValue(c.rhs_terms, [val EXCEPT !.cost = <<>>]) + c.rhs]]

\* A constraint of a planning model holds for the values val.
PlanSatisfies(c, val) ==
    LET lhs == ExprValue(c.terms, val)
        rhs == ExprValue(c.rhs_terms, val) + c.rhs
    IN  CASE c.sense = "==" -> lhs = rhs
          [] c.sense = "<=" -> lhs <= rhs
          [] c.sense = ">=" -> lhs >= rhs

\* A value lies within the bounds of its variable.
WithinBounds(v, n) == v.lb <= n /\ n <= v.ub

\* The solutions of a planning model
PlanSolutions(model) ==
    {val \in {WithCosts(model, [x_assign |-> xa, x_under |-> xu, cost |-> <<>>]) :
                  xa \in [DOMAIN model.x_assign -> 0..MaxPlanned],
                  xu \in [DOMAIN model.x_under -> 0..MaxPlanned]} :
        /\ \A id \in DOMAIN model.x_assign :
               WithinBounds(model.x_assign[id], val.x_assign[id])
        /\ \A n \in DOMAIN model.x_under :
               WithinBounds(model.x_under[n], val.x_under[n])
        /\ \A v \in DOMAIN model.cost_variables :
               WithinBounds(model.cost_variables[v], val.cost[v])
        /\ \A n \in DOMAIN model.constraints :
               PlanSatisfies(model.constraints[n], val)}

\* The solutions for which a minimised objective is smallest
PlanBest(sols, obj) ==
    {v \in sols : \A u \in sols : ExprValue(obj.terms, v) <= ExprValue(obj.terms, u)}

\* As PlanSTATUS, without the entry for UNBOUNDED.
PlanSTATUSWithoutUnbounded ==
    [FEASIBLE |-> "feasible", INFEASIBLE |-> "infeasible", OPTIMAL |-> "optimal"]

\* STATUS of the OR-Tools planning app
PlanSTATUS ==
    [FEASIBLE |-> "feasible", INFEASIBLE |-> "infeasible", OPTIMAL |-> "optimal",
     UNBOUNDED |-> "unbounded"]

\* ANY_SOLUTION of the OR-Tools planning app
ANY_SOLUTION == {"FEASIBLE", "OPTIMAL"}

\* The list "planned_shifts": the concrete shifts with a value above 0.5, in
\* the order of concrete_shifts, each with its rounded value as count
PlannedShifts(cs, val) ==
    Flatten([k \in DOMAIN cs |->
        IF 2 * val.x_assign[cs[k].id] > 1
        THEN <<[id |-> cs[k].id, shift_id |-> cs[k].shift_id,
                time_id |-> cs[k].time_id, start_time |-> cs[k].start_time,
                end_time |-> cs[k].end_time, qualification |-> cs[k].qualification,
                count |-> val.x_assign[cs[k].id]]>>
        ELSE <<>>])

\* "Convert to solution format" and the output of the OR-Tools app
OrtoolsPlanningOutput(result, cs, obj) ==
    LET has_solution == result.status \in ANY_SOLUTION
    IN  [solution |-> [planned_shifts |-> IF has_solution
                                          THEN PlannedShifts(cs, result.values)
                                          ELSE <<>>],
         value |-> IF has_solution THEN <<ExprValue(obj.terms, result.values)>>
                   ELSE <<>>,
         status |-> Get(PlanSTATUS, result.status, "unknown")]

\* The rest of solve of the OR-Tools app: solver.Solve() and the conversion
\* of its result
ortools_planning_result ==
    /\ app = "ortools"
    /\ plan_pc = "decomposed"
    /\ ortools_model # <<>>
    /\ LET sols == PlanSolutions(ortools_model)
       IN  \E result \in Outcomes(sols, PlanBest(sols, ortools_model.objective),
                                   "OPTIMAL", "FEASIBLE", "INFEASIBLE",
                                   {"UNBOUNDED", "ABNORMAL", "NOT_SOLVED"}) :
               /\ solver_result' = result
               /\ output' = OrtoolsPlanningOutput(result, concrete_shifts,
                                                  ortools_model.objective)
    /\ plan_pc' = "returned"
    /\ UNCHANGED <<shift_templates, demands, concrete_shifts, periods,
                   input_options, ortools_model, pyomo_model>>
    /\ UNCHANGED <<merge_vars, assign_vars, app, provider, input_vars>>

\* "Convert to solution format" and the output of the Pyomo app; val is
\* pyo.value(model.objective, exception=False)
PyomoPlanningOutput(result, val, cs) ==
    [solution |-> [planned_shifts |-> IF Truthy(val)
                                      THEN PlannedShifts(cs, result.values)
                                      ELSE <<>>],
     value |-> val,
     status |-> Get(PyomoSTATUS, result.status, "unknown")]

\* The rest of solve of the Pyomo app: solver.solve(model) and the conversion
\* of its result.  Without a solution the variable shift_cost of the
\* objective has no value, and the value of the objective is None.
pyomo_planning_result ==
    /\ app = "pyomo"
    /\ plan_pc = "decomposed"
    /\ pyomo_model # <<>>
    /\ "error" \notin DOMAIN pyomo_model
    /\ LET sols == PlanSolutions(pyomo_model)
       IN  \E result \in Outcomes(sols, PlanBest(sols, pyomo_model.objective),
                                   "optimal", "feasible", "infeasible",
                                   {"unbounded", "maxTimeLimit", "other"}) :
               LET val == IF result.values = <<>> THEN <<>>
                          ELSE <<ExprValue(pyomo_model.objective.terms,
                                           result.values)>>
               IN  /\ solver_result' = result
                   /\ output' = PyomoPlanningOutput(result, val, concrete_shifts)
    /\ plan_pc' = "returned"
    /\ UNCHANGED <<shift_templates, demands, concrete_shifts, periods,
                   input_options, ortools_model, pyomo_model>>
    /\ UNCHANGED <<merge_vars, assign_vars, app, provider, input_vars>>

\* The assignment app is not running.
AssignIdle ==
    /\ pc = "idle"
    /\ workers = <<>>
    /\ shifts = <<>>
    /\ rules = <<>>
    /\ rules_per_worker = <<>>
    /\ x_assign = <<>>
    /\ constraints = <<>>
    /\ objective = <<>>
    /\ pyomo_assign = <<>>

\* The planning app is not running.
PlanIdle ==
    /\ plan_pc = "idle"
    /\ shift_templates = <<>>
    /\ demands = <<>>
    /\ concrete_shifts = <<>>
    /\ periods = <<>>
    /\ input_options = <<>>
    /\ ortools_model = <<>>
    /\ pyomo_model = <<>>

\* The two apps of a kind are followed side by side from the conversion of
\* the input to the models; no solver has been called.
SideBySide ==
    /\ app = "both"
    /\ provider = ""
    /\ solver_result = <<>>
    /\ output = <<>>
    /\ timestamps = "str"
    /\ calls = 1

\* The merge step is not under test.
MergeIdle ==
    /\ availability = <<>>
    /\ raw = <<>>
    /\ merged = 0

(***************************************************************************)
(* Merge specification: the merge step applied to any availability list,   *)
(* and again to its own output.                                            *)
(***************************************************************************)
MergeInit ==
    /\ raw \in SeqsUpTo(IntervalsUpTo(MaxMergeTime), MaxAvail)
    /\ availability = raw
    /\ merged = 0
    /\ AssignIdle
    /\ PlanIdle
    /\ SideBySide
    /\ as_read = <<>>

ApplyMerge ==
    /\ merged < MaxMerges
    /\ availability' = MergeAvailability(availability)
    /\ merged' = merged + 1
    /\ UNCHANGED raw
    /\ UNCHANGED <<assign_vars, plan_vars, run_vars, input_vars>>

MergeNext == ApplyMerge

SpecMerge == MergeInit /\ [][MergeNext]_vars

\* Two entries share a point in time.
Overlap(a, b) ==
    /\ a.start_time < b.end_time
    /\ b.start_time < a.end_time

NoOverlap(av) ==
    \A i \in DOMAIN av : \A j \in DOMAIN av : i # j => ~Overlap(av[i], av[j])

\* C8: merging is idempotent: once the merge step has been applied, applying
\* it again to its own output leaves the list of intervals unchanged.
MergeIdempotent == [][merged >= 1 => availability' = availability]_vars

\* C8 witness: a second application on an output that the first application
\* really shortened.
MergeIdempotentWitness ==
    /\ merged = 2
    /\ Len(availability) < Len(raw)

\* C9 (the claim as stated): after merging, no two distinct intervals of the
\* output are exactly adjacent, neighbours in the sorted order or not.
NoTwoAdjacent ==
    merged >= 1 =>
        \A i \in DOMAIN availability : \A j \in DOMAIN availability :
            i # j => availability[i].end_time # availability[j].start_time

\* C10 (the claim as stated): after merging, the intervals are mutually
\* non-overlapping.
MergedNoOverlap == merged >= 1 => NoOverlap(availability)

\* C10 (amended): when the intervals read for a worker are mutually
\* non-overlapping, so are the merged intervals.
MergedNoOverlapIfInputDisjoint ==
    (merged >= 1 /\ NoOverlap(raw)) => NoOverlap(availability)

\* C10 witness: disjoint input of which two entries were joined, leaving
\* more than one interval.
MergedNoOverlapWitness ==
    /\ merged = 1
    /\ NoOverlap(raw)
    /\ Len(availability) < Len(raw)
    /\ Len(availability) >= 2

\* The list as read, ordered by start; entries with the same start keep the
\* order in which they were read.
RawByStart ==
    LET rank(k) == Cardinality({j \in DOMAIN raw :
                        \/ raw[j].start_time < raw[k].start_time
                        \/ raw[j].start_time = raw[k].start_time /\ j <= k})
    IN  [n \in DOMAIN raw |-> raw[CHOOSE k \in DOMAIN raw : rank(k) = n]]

\* C11: the output of the merger is ordered by start ascending, and it is the
\* list as read, ordered by start, in which neighbours are joined exactly
\* when the end of the first equals the start of the second: every maximal
\* chain of such neighbours becomes one interval from the start of its first
\* to the end of its last entry, and neighbours separated by a gap or
\* overlapping stay separate with their bounds.
MergerContract ==
    merged = 1 =>
        LET s == RawByStart
            first == {k \in DOMAIN s : k = 1 \/ s[k - 1].end_time # s[k].start_time}
            chain(m) == CHOOSE k \in first : Cardinality({j \in first : j <= k}) = m
            last(k) == CHOOSE l \in k..Len(s) :
                           /\ \A j \in (k + 1)..l : j \notin first
                           /\ l = Len(s) \/ (l + 1) \in first
        IN  /\ Len(availability) = Cardinality(first)
            /\ \A m \in DOMAIN availability :
                   /\ availability[m].start_time = s[chain(m)].start_time
                   /\ availability[m].end_time = s[last(chain(m))].end_time
            /\ \A m \in DOMAIN availability : \A n \in DOMAIN availability :
                   m < n => availability[m].start_time <= availability[n].start_time

\* C11 witness: a chain of three intervals read out of order and merged into
\* the single interval from the first start to the last end.
MergerContractWitness ==
    /\ merged = 1
    /\ Len(raw) = 3
    /\ raw[1].start_time > raw[2].start_time
    /\ \E i \in DOMAIN raw : \E j \in DOMAIN raw : \E k \in DOMAIN raw :
           /\ raw[i].end_time = raw[j].start_time
           /\ raw[j].end_time = raw[k].start_time
           /\ availability = <<[start_time |-> raw[i].start_time,
                                end_time |-> raw[k].end_time]>>

\* The lists that hold the same intervals as the list read, in any order.
Reorderings ==
    {[k \in DOMAIN raw |-> raw[f[k]]] : f \in Permutations(DOMAIN raw)}

\* C28 (the claim as stated): the merged availability depends only on which
\* intervals were read, not on the order in which they were read: every
\* reordering of the list read merges to the same intervals as the list the
\* merger returned, intervals that share a start time included.
MergeOrderIndependent ==
    merged = 1 =>
        \A av \in Reorderings :
            LET other == MergeAvailability(av)
            IN  {other[k] : k \in DOMAIN other} =
                    {availability[k] : k \in DOMAIN availability}

(***************************************************************************)
(* Assignment specification: solve of the shift-assignment apps on inputs  *)
(* of two families.  Ids are the positions in the input lists.             *)
(***************************************************************************)

\* Shifts as read: no "qualification" key, an empty one, or a required one.
ShiftShapes(qs) ==
    {[start_time |-> iv.start_time, end_time |-> iv.end_time, count |-> 1] :
        iv \in Intervals}
    \cup {[start_time |-> iv.start_time, end_time |-> iv.end_time, count |-> 1,
           qualification |-> q] : iv \in Intervals, q \in qs}

\* Workers as read: with or without "qualifications" and "preferences".
WorkerShapes ==
    LET avs == SeqsUpTo(IntervalsUpTo(MaxAvailTime), MaxWorkerAvail)
        quals == {{}, {"q1"}}
        prefs == {<<0>>, <<MaxPref>>}
    IN  {[availability |-> av, rules |-> 1] : av \in avs}
        \cup {[availability |-> av, rules |-> 1, qualifications |-> q] :
                 av \in avs, q \in quals}
        \cup {[availability |-> av, rules |-> 1, preferences |-> pr] :
                 av \in avs, pr \in prefs}
        \cup {[availability |-> av, rules |-> 1, qualifications |-> q,
               preferences |-> pr] : av \in avs, q \in quals, pr \in prefs}

WholeHorizon == [start_time |-> 0, end_time |-> MaxTime]

\* The list with the id of every entry set to its position.
Numbered(list) == [k \in DOMAIN list |-> Put(list[k], "id", k)]

\* One shift and one worker of any shape, next to a shift over the whole
\* horizon that requires "q2" and a worker who is always available and holds
\* "q2" only; one rule without rest time.
EligibilityInputs ==
    /\ \E sh \in ShiftShapes({"", "q1"}) :
           shifts = Numbered(<<sh, [start_time |-> 0, end_time |-> MaxTime,
                                   count |-> 1, qualification |-> "q2"]>>)
    /\ \E w \in WorkerShapes :
           workers = Numbered(<<w, [availability |-> <<WholeHorizon>>, rules |-> 1,
                                    qualifications |-> {"q2"},
                                    preferences |-> <<MaxPref>>]>>)
    /\ rules = <<[id |-> 1, min_rest_hours_between_shifts |-> 0]>>

\* Up to MaxShifts shifts anywhere in the horizon, two rules with any rest
\* times, the first worker following the second rule and the second the first.
RestInputs ==
    /\ \E sh \in SeqsUpTo(ShiftShapes({}), MaxShifts) :
           /\ sh # <<>>
           /\ shifts = Numbered(sh)
    /\ \E r1 \in 0..MaxRest, r2 \in 0..MaxRest :
           rules = <<[id |-> 1, min_rest_hours_between_shifts |-> r1],
                     [id |-> 2, min_rest_hours_between_shifts |-> r2]>>
    /\ workers = Numbered(<<
           [availability |-> <<WholeHorizon>>, rules |-> 2],
           [availability |-> <<[start_time |-> 1, end_time |-> 2],
                               [start_time |-> 0, end_time |-> 1]>>,
            rules |-> 1]>>)

\* One worker with any availability, overlapping entries included, and one
\* shift anywhere in the horizon; no qualifications, one rule without rest time.
AvailabilityInputs ==
    /\ \E sh \in ShiftShapes({}) : shifts = Numbered(<<sh>>)
    /\ \E av \in SeqsUpTo(Intervals, MaxWorkerAvail) :
           workers = Numbered(<<[availability |-> av, rules |-> 1]>>)
    /\ rules = <<[id |-> 1, min_rest_hours_between_shifts |-> 0]>>

\* Two workers who are always available, each naming any rule id, and any
\* list of rules, repeated ids included; two shifts that require two workers
\* and no worker.
RuleInputs ==
    /\ shifts = Numbered(<<[start_time |-> 0, end_time |-> 1, count |-> 2],
                           [start_time |-> 1, end_time |-> MaxTime, count |-> 0]>>)
    /\ \E ids \in SeqsUpTo(1..MaxRules, MaxRules) :
           rules = [k \in DOMAIN ids |->
                       [id |-> ids[k], min_rest_hours_between_shifts |-> 0]]
    /\ \E r1 \in 1..MaxRules, r2 \in 1..MaxRules :
           workers = Numbered(<<[availability |-> <<WholeHorizon>>, rules |-> r1],
                                [availability |-> <<WholeHorizon>>, rules |-> r2]>>)

\* Two rules that each define or leave out min_shifts and max_shifts, two
\* workers following the first rule and one following the second, all always
\* available; two shifts.
BoundInputs ==
    /\ shifts = Numbered(<<[start_time |-> 0, end_time |-> 1, count |-> 1],
                           [start_time |-> 1, end_time |-> MaxTime, count |-> 2]>>)
    /\ \E b1 \in OptionalFields([min_shifts |-> 1, max_shifts |-> 2]) :
       \E b2 \in OptionalFields([min_shifts |-> 2, max_shifts |-> 2]) :
           rules = <<Put(Put(b1, "id", 1), "min_rest_hours_between_shifts", 0),
                     Put(Put(b2, "id", 2), "min_rest_hours_between_shifts", 0)>>
    /\ workers = Numbered(<<[availability |-> <<WholeHorizon>>, rules |-> 1],
                            [availability |-> <<WholeHorizon>>, rules |-> 1],
                            [availability |-> <<WholeHorizon>>, rules |-> 2]>>)

\* Preference weights: against a shift, none, for a shift
Weights == {0 - MaxPref, 0, MaxPref}

\* Two shifts one after the other and two workers who are always available;
\* the first has no preferences or any weights for any of the shifts, the
\* second prefers the second shift.
PreferenceInputs ==
    /\ shifts = Numbered(<<[start_time |-> 0, end_time |-> 1, count |-> 1],
                           [start_time |-> 1, end_time |-> MaxTime, count |-> 1]>>)
    /\ \E w \in {[availability |-> <<WholeHorizon>>, rules |-> 1]}
               \cup {[availability |-> <<WholeHorizon>>, rules |-> 1,
                      preferences |-> pr] :
                        pr \in UNION {[ids -> Weights] : ids \in SUBSET {1, 2}}} :
           workers = Numbered(<<w, [availability |-> <<WholeHorizon>>, rules |-> 1,
                                    preferences |-> [k \in {2} |-> MaxPref]]>>)
    /\ rules = <<[id |-> 1, min_rest_hours_between_shifts |-> 0]>>

\* Nothing has been derived from the input data of the assignment app.
AssignFresh ==
    /\ rules_per_worker = <<>>
    /\ x_assign = <<>>
    /\ constraints = <<>>
    /\ objective = <<>>
    /\ pyomo_assign = <<>>
    /\ raw = [k \in DOMAIN workers |-> workers[k].availability]
    /\ availability = <<>>
    /\ merged = 0
    /\ as_read = [workers |-> workers, shifts |-> shifts, rules |-> rules]
    /\ PlanIdle

\* solve of an assignment app is about to convert the input data that were
\* read.
AssignStart ==
    /\ pc = "start"
    /\ AssignFresh

AssignInit ==
    /\ pc = "start"
    /\ \/ EligibilityInputs
       \/ RestInputs
       \/ AvailabilityInputs
       \/ RuleInputs
       \/ BoundInputs
    /\ rules_per_worker = <<>>
    /\ x_assign = <<>>
    /\ constraints = <<>>
    /\ objective = <<>>
    /\ pyomo_assign = <<>>
    /\ raw = [k \in DOMAIN workers |-> workers[k].availability]
    /\ availability = <<>>
    /\ merged = 0
    /\ PlanIdle
    /\ SideBySide
    /\ as_read = [workers |-> workers, shifts |-> shifts, rules |-> rules]

AssignNext == convert_input \/ solve

SpecAssign == AssignInit /\ [][AssignNext]_vars

\* The model has been built.
Built == pc = "built"

\* The rest time of worker e, looked up in the rules as read.
RestOf(e) ==
    LET k == CHOOSE k \in DOMAIN rules : rules[k].id = e.rules
    IN  rules[k].min_rest_hours_between_shifts

\* A mutual-exclusion constraint x[e,a] + x[e,b] <= 1 was added for worker id
\* e and shift ids a, b (as the first and second term, in that order).
RestEmitted(e, a, b) ==
    \E n \in DOMAIN constraints :
        /\ constraints[n].kind = "Rest"
        /\ constraints[n].terms = << <<e, a>>, <<e, b>> >>
        /\ constraints[n].sense = "<="
        /\ constraints[n].rhs = 1

\* C1: once the model is built, the variable of (e, s) is fixed to 0 exactly
\* when no merged availability interval of e contains s or s requires a
\* qualification e does not hold (a worker without a qualifications list holds
\* none); every other variable keeps the bounds [0, 1]; the preference weight
\* plays no part.
EligibilityMask ==
    Built =>
        \A j \in DOMAIN workers : \A k \in DOMAIN shifts :
            LET e == workers[j]
                s == shifts[k]
                x == x_assign[<<e.id, s.id>>]
                unavailable ==
                    ~\E a \in DOMAIN e.availability :
                        /\ e.availability[a].start_time <= s.start_time
                        /\ e.availability[a].end_time >= s.end_time
                unqualified ==
                    /\ "qualification" \in DOMAIN s
                    /\ s.qualification # ""
                    /\ \/ "qualifications" \notin DOMAIN e
                       \/ s.qualification \notin e.qualifications
            IN  /\ (x.lb = 0 /\ x.ub = 0) <=> (unavailable \/ unqualified)
                /\ ~(unavailable \/ unqualified) => (x.lb = 0 /\ x.ub = 1)

\* C1 witness: a built model in which a pair with a positive preference weight
\* is fixed to 0 for its qualification alone, and another pair is left free.
EligibilityMaskWitness ==
    /\ Built
    /\ \E j \in DOMAIN workers : \E k \in DOMAIN shifts :
           /\ Get(workers[j].preferences, shifts[k].id, 0) > 0
           /\ "qualification" \in DOMAIN shifts[k]
           /\ shifts[k].qualification = "q1"
           /\ "qualifications" \in DOMAIN workers[j]
           /\ \E a \in DOMAIN workers[j].availability :
                  /\ workers[j].availability[a].start_time <= shifts[k].start_time
                  /\ workers[j].availability[a].end_time >= shifts[k].end_time
           /\ x_assign[<<workers[j].id, shifts[k].id>>].ub = 0
    /\ \E key \in DOMAIN x_assign : x_assign[key].ub = 1

\* C12 (the claim as stated): once the model is built, for every worker and
\* shift some merged availability interval contains the whole shift exactly
\* when every hour of the shift lies in some availability interval of the
\* worker as read, and a pair whose shift requires no qualification is left
\* free exactly in that case.
AvailableIffInUnion ==
    Built =>
        \A j \in DOMAIN workers : \A k \in DOMAIN shifts :
            LET e == workers[j]
                s == shifts[k]
                contained ==
                    \E a \in DOMAIN e.availability :
                        /\ e.availability[a].start_time <= s.start_time
                        /\ e.availability[a].end_time >= s.end_time
                in_union ==
                    \A t \in s.start_time..(s.end_time - 1) :
                        \E a \in DOMAIN raw[j] :
                            /\ raw[j][a].start_time <= t
                            /\ t < raw[j][a].end_time
            IN  /\ contained <=> in_union
                /\ "qualification" \notin DOMAIN s =>
                       (x_assign[<<e.id, s.id>>].ub = 1 <=> in_union)

\* C2: once the model is built, for every worker e with rest time r of e's rule
\* and every two distinct shifts s1 before s2 in the list, the constraint
\* x[e,s1] + x[e,s2] <= 1 exists exactly when neither s1.end + r < s2.start nor
\* s2.end + r < s1.start; so it exists when the shifts overlap and when the gap
\* between them is shorter than r.
RestConflictPairs ==
    Built =>
        \A j \in DOMAIN workers : \A k1 \in DOMAIN shifts : \A k2 \in DOMAIN shifts :
            k1 < k2 =>
                LET e == workers[j]
                    r == RestOf(e)
                    s1 == shifts[k1]
                    s2 == shifts[k2]
                    emitted == RestEmitted(e.id, s1.id, s2.id)
                IN  /\ emitted <=> (/\ ~(s1.end_time + r < s2.start_time)
                                    /\ ~(s2.end_time + r < s1.start_time))
                    /\ (s1.start_time < s2.end_time /\ s2.start_time < s1.end_time)
                           => emitted
                    /\ (s1.end_time <= s2.start_time
                            /\ s2.start_time - s1.end_time < r) => emitted
                    /\ (s2.end_time <= s1.start_time
                            /\ s1.start_time - s2.end_time < r) => emitted

\* C2 witness: two shifts one hour apart and a worker whose rule asks for two
\* hours of rest (A = [09:00,13:00), B = [14:00,18:00), r = 2h, in hours of the
\* model), with the constraint, and another worker with no rest time, without.
RestConflictPairsWitness ==
    /\ Built
    /\ \E j \in DOMAIN workers : \E k1 \in DOMAIN shifts : \E k2 \in DOMAIN shifts :
           /\ k1 < k2
           /\ shifts[k2].start_time - shifts[k1].end_time = 1
           /\ RestOf(workers[j]) = 2
           /\ RestEmitted(workers[j].id, shifts[k1].id, shifts[k2].id)
           /\ \E i \in DOMAIN workers :
                  /\ RestOf(workers[i]) = 0
                  /\ ~RestEmitted(workers[i].id, shifts[k1].id, shifts[k2].id)

\* C3 (the claim as stated): when the gap between the end of one shift and the
\* start of the other equals the worker's rest time exactly, no conflict pair
\* is emitted for that worker.
NoConflictAtExactRest ==
    Built =>
        \A j \in DOMAIN workers : \A k1 \in DOMAIN shifts : \A k2 \in DOMAIN shifts :
            (/\ k1 # k2
             /\ shifts[k1].end_time <= shifts[k2].start_time
             /\ shifts[k2].start_time - shifts[k1].end_time = RestOf(workers[j]))
            => /\ ~RestEmitted(workers[j].id, shifts[k1].id, shifts[k2].id)
               /\ ~RestEmitted(workers[j].id, shifts[k2].id, shifts[k1].id)

\* The rest constraints, in the order they were added.
RestAdded == SelectSeq(constraints, LAMBDA c : c.kind = "Rest")

\* C4: once the model is built, the rest constraints name each worker and
\* unordered pair of shifts at most once, always with the shift that comes
\* first in the list as the first term, and never pair a shift with itself.
EachPairOnce ==
    Built =>
        LET added == RestAdded
            worker(n) == added[n].terms[1][1]
            pair(n) == {added[n].terms[1][2], added[n].terms[2][2]}
        IN  /\ \A n \in DOMAIN added : \A m \in DOMAIN added :
                   (n # m /\ worker(n) = worker(m)) => pair(n) # pair(m)
            /\ \A n \in DOMAIN added :
                   /\ added[n].terms[1][1] = added[n].terms[2][1]
                   /\ added[n].terms[1][2] < added[n].terms[2][2]

\* C4 witness: three shifts that all conflict for one worker, with exactly the
\* three constraints of the three unordered pairs.
EachPairOnceWitness ==
    /\ Built
    /\ Len(shifts) = 3
    /\ \E j \in DOMAIN workers :
           /\ RestEmitted(workers[j].id, 1, 2)
           /\ RestEmitted(workers[j].id, 1, 3)
           /\ RestEmitted(workers[j].id, 2, 3)
           /\ Len(SelectSeq(RestAdded, LAMBDA c : c.terms[1][1] = workers[j].id)) = 3

\* C17: when the rule reference of some worker matches no rule of the input
\* or more than one, convert_input ends in an error, and no variable,
\* constraint or objective exists then or later.
InvalidRuleAborts ==
    LET matches(j) == {k \in DOMAIN rules : rules[k].id = workers[j].rules}
    IN  (pc # "start" /\ \E j \in DOMAIN workers : Cardinality(matches(j)) # 1)
            => /\ pc = "error"
               /\ x_assign = <<>>
               /\ constraints = <<>>
               /\ objective = <<>>
               /\ rules_per_worker = <<>>

\* C17 witness: the run has ended in the error for an input in which the
\* first worker names a rule that is not defined and the second worker a rule
\* that is defined twice.
InvalidRuleAbortsWitness ==
    /\ pc = "error"
    /\ Len(workers) = 2
    /\ ~\E k \in DOMAIN rules : rules[k].id = workers[1].rules
    /\ \E k \in DOMAIN rules : \E l \in DOMAIN rules :
           /\ k # l
           /\ rules[k].id = workers[2].rules
           /\ rules[l].id = workers[2].rules

\* C18: once the model is built there is exactly one variable for every pair
\* of a worker and a shift, |workers| x |shifts| variables in all, every one
\* of them binary: a pair that is not eligible has its variable with the
\* bounds [0, 0], every other pair with the bounds [0, 1].
OneVariablePerPair ==
    Built =>
        /\ DOMAIN x_assign =
               {<<workers[j].id, shifts[k].id>> : j \in DOMAIN workers, k \in DOMAIN shifts}
        /\ Cardinality(DOMAIN x_assign) = Len(workers) * Len(shifts)
        /\ \A key \in DOMAIN x_assign :
               /\ x_assign[key].lb = 0
               /\ x_assign[key].ub \in {0, 1}

\* C18 witness: a built model with the variable of a pair whose worker is not
\* available for the shift, fixed to 0, next to a variable that is free.
OneVariablePerPairWitness ==
    /\ Built
    /\ \E j \in DOMAIN workers : \E k \in DOMAIN shifts :
           /\ ~\E a \in DOMAIN workers[j].availability :
                  /\ workers[j].availability[a].start_time <= shifts[k].start_time
                  /\ workers[j].availability[a].end_time >= shifts[k].end_time
           /\ <<workers[j].id, shifts[k].id>> \in DOMAIN x_assign
           /\ x_assign[<<workers[j].id, shifts[k].id>>].ub = 0
    /\ \E key \in DOMAIN x_assign : x_assign[key].ub = 1

\* The constraints of the shifts, in the order they were added.
ShiftAdded == SelectSeq(constraints, LAMBDA c : c.kind = "Shift")

\* C19: once the model is built there is exactly one coverage constraint for
\* every shift, in the order of the shifts: an equality between the sum of the
\* variables of that shift, one for every worker, and the count of the shift.
CoverageIsEquality ==
    Built =>
        LET added == ShiftAdded
        IN  /\ Len(added) = Len(shifts)
            /\ \A k \in DOMAIN shifts :
                   /\ added[k].name = <<shifts[k].id>>
                   /\ added[k].sense = "=="
                   /\ added[k].rhs = shifts[k].count
                   /\ Len(added[k].terms) = Len(workers)
                   /\ \A j \in DOMAIN workers :
                          added[k].terms[j] = <<workers[j].id, shifts[k].id>>

\* C19 witness: a built model with a shift that requires two workers and the
\* equality of its two variables' sum with 2.
CoverageIsEqualityWitness ==
    /\ Built
    /\ \E n \in DOMAIN constraints :
           /\ constraints[n].kind = "Shift"
           /\ constraints[n].sense = "=="
           /\ constraints[n].rhs = 2
           /\ Len(constraints[n].terms) = 2

\* The rules as read that the worker as read at position j refers to
RuleRead(j) ==
    SelectSeq(as_read.rules, LAMBDA r : r.id = as_read.workers[j].rules)

\* The constraints on the number of shifts of the worker with that id
WorkerAdded(id, sense) ==
    SelectSeq(constraints,
              LAMBDA c : c.kind = "worker" /\ c.name = <<id>> /\ c.sense = sense)

\* C26: once the model is built, the sum of the variables of a worker over
\* all shifts is constrained once from below by the min_shifts and once from
\* above by the max_shifts of the one rule the worker refers to, as the rule
\* was read; the bound is 0 or 1000 exactly when the rule as read leaves the
\* field out, so that workers who refer to the same rule get the same bounds.
BoundsFromRule ==
    Built =>
        \A j \in DOMAIN as_read.workers :
            LET id == as_read.workers[j].id
                r == RuleRead(j)[1]
                sum == {<<id, shifts[k].id>> : k \in DOMAIN shifts}
                least == WorkerAdded(id, ">=")
                most == WorkerAdded(id, "<=")
            IN  /\ Len(RuleRead(j)) = 1
                /\ Len(least) = 1
                /\ Len(most) = 1
                /\ {least[1].terms[k] : k \in DOMAIN least[1].terms} = sum
                /\ {most[1].terms[k] : k \in DOMAIN most[1].terms} = sum
                /\ Len(least[1].terms) = Len(shifts)
                /\ Len(most[1].terms) = Len(shifts)
                /\ least[1].rhs =
                       IF "min_shifts" \in DOMAIN r THEN r.min_shifts ELSE 0
                /\ most[1].rhs =
                       IF "max_shifts" \in DOMAIN r THEN r.max_shifts ELSE 1000

\* C26 witness: a built model for two workers who refer to one rule that
\* gives min_shifts and leaves out max_shifts, next to a worker whose rule
\* gives max_shifts only: both workers of the first rule are bound by 1 and
\* 1000, the third by 0 and 2.
BoundsFromRuleWitness ==
    /\ Built
    /\ Len(as_read.workers) = 3
    /\ as_read.workers[1].rules = as_read.workers[2].rules
    /\ DOMAIN RuleRead(1)[1] \cap {"min_shifts", "max_shifts"} = {"min_shifts"}
    /\ DOMAIN RuleRead(3)[1] \cap {"min_shifts", "max_shifts"} = {"max_shifts"}
    /\ \A j \in {1, 2} :
           /\ WorkerAdded(as_read.workers[j].id, ">=")[1].rhs = 1
           /\ WorkerAdded(as_read.workers[j].id, "<=")[1].rhs = 1000
    /\ WorkerAdded(as_read.workers[3].id, ">=")[1].rhs = 0
    /\ WorkerAdded(as_read.workers[3].id, "<=")[1].rhs = 2

(***************************************************************************)
(* Mask specification: solve of the assignment apps pass by pass, the two  *)
(* bound-fixing passes in either order.                                    *)
(***************************************************************************)
MaskInit ==
    /\ EligibilityInputs
    /\ AssignStart
    /\ SideBySide

MaskNext ==
    \/ convert_input
    \/ create_variables
    \/ availability_pass
    \/ qualification_pass
    \/ set_objective

SpecMask == MaskInit /\ [][MaskNext]_vars

\* The worker and the shift of a key
WorkerOf(key) == workers[CHOOSE j \in DOMAIN workers : workers[j].id = key[1]]
ShiftOf(key) == shifts[CHOOSE k \in DOMAIN shifts : shifts[k].id = key[2]]

\* No availability interval of the worker of the key contains its shift.
KeyUnavailable(key) ==
    ~\E a \in DOMAIN WorkerOf(key).availability :
        /\ WorkerOf(key).availability[a].start_time <= ShiftOf(key).start_time
        /\ WorkerOf(key).availability[a].end_time >= ShiftOf(key).end_time

\* The shift of the key requires a qualification its worker does not hold.
KeyUnqualified(key) ==
    /\ "qualification" \in DOMAIN ShiftOf(key)
    /\ ShiftOf(key).qualification # ""
    /\ \/ "qualifications" \notin DOMAIN WorkerOf(key)
       \/ ShiftOf(key).qualification \notin WorkerOf(key).qualifications

\* C30: a variable whose upper bound is 0 keeps its bounds in every later
\* step (the other pass and the objective set-up); a pass changes the bounds
\* of the pairs it forbids only: the availability pass those of unavailable
\* pairs, the qualification pass those of unqualified pairs; and after both
\* passes, whichever ran first, exactly the unavailable and the unqualified
\* pairs are fixed to 0 and every other pair has the bounds [0, 1].
MaskOnlyNarrows ==
    [][x_assign # <<>> =>
          LET availability_ran == \/ pc = "created" /\ pc' = "availability"
                                  \/ pc = "qualification" /\ pc' = "masked"
              qualification_ran == \/ pc = "created" /\ pc' = "qualification"
                                   \/ pc = "availability" /\ pc' = "masked"
          IN  /\ DOMAIN x_assign' = DOMAIN x_assign
              /\ \A key \in DOMAIN x_assign :
                     /\ x_assign[key].ub = 0 => x_assign'[key] = x_assign[key]
                     /\ x_assign'[key] # x_assign[key] =>
                            \/ availability_ran /\ KeyUnavailable(key)
                            \/ qualification_ran /\ KeyUnqualified(key)
                     /\ pc' = "masked" =>
                            x_assign'[key] =
                                IF KeyUnavailable(key) \/ KeyUnqualified(key)
                                THEN [lb |-> 0, ub |-> 0]
                                ELSE [lb |-> 0, ub |-> 1]]_vars

\* C30 witness: the qualification pass has run first and fixed a pair that is
\* available, while an unavailable pair still has the bounds [0, 1].
MaskOnlyNarrowsWitness ==
    /\ pc = "qualification"
    /\ \E key \in DOMAIN x_assign :
           /\ x_assign[key].ub = 0
           /\ ~KeyUnavailable(key)
    /\ \E key \in DOMAIN x_assign :
           /\ x_assign[key].ub = 1
           /\ KeyUnavailable(key)

(***************************************************************************)
(* Assignment model specification: the models of the OR-Tools and of the   *)
(* Pyomo app, built side by side from the same converted input.            *)
(***************************************************************************)
AssignModelsInit ==
    /\ PreferenceInputs \/ BoundInputs \/ AvailabilityInputs
    /\ AssignStart
    /\ SideBySide

AssignModelsNext == convert_input \/ solve \/ solve_pyomo_assignment

SpecAssignModels == AssignModelsInit /\ [][AssignModelsNext]_vars

\* The coefficient an objective gives to the variable of a pair
CoefficientOf(obj, key) ==
    IF key \in DOMAIN obj.coefficients THEN obj.coefficients[key] ELSE 0

\* C21 (the claim as stated): once both models are built from the same
\* input, both objectives are maximised, and for every pair of a worker and a
\* shift both give the variable of the pair the preference weight of the
\* worker for the shift, 0 when the worker states none.
SameObjective ==
    (pc = "built" /\ pyomo_assign # <<>>) =>
        /\ objective.sense = "maximize"
        /\ pyomo_assign.objective.sense = "maximize"
        /\ \A j \in DOMAIN workers : \A k \in DOMAIN shifts :
               LET key == <<workers[j].id, shifts[k].id>>
                   stated == as_read.workers[j]
                   weight == IF "preferences" \in DOMAIN stated
                                /\ shifts[k].id \in DOMAIN stated.preferences
                             THEN stated.preferences[shifts[k].id]
                             ELSE 0
               IN  /\ CoefficientOf(objective, key) = weight
                   /\ CoefficientOf(pyomo_assign.objective, key) = weight

(***************************************************************************)
(* Planning specification: the data preparation of solve of the            *)
(* shift-planning apps, on any small list of templates and demands.        *)
(***************************************************************************)

\* Characters for the ids of the times of a template
Digits == <<"1", "2", "3", "4", "5", "6">>

\* The times of a template as read, with ids by position
TimeList(ivs) ==
    [k \in DOMAIN ivs |->
        [id |-> <<Digits[k]>>, start_time |-> ivs[k].start_time,
         end_time |-> ivs[k].end_time]]

\* Demands as read: one worker required, for a qualification or for none
DemandShapes ==
    {[start_time |-> iv.start_time, end_time |-> iv.end_time, count |-> 1] :
        iv \in Intervals}
    \cup {[start_time |-> iv.start_time, end_time |-> iv.end_time, count |-> 1,
           qualification |-> "q1"] : iv \in Intervals}

\* Any demands, a template without qualification and a template for "q1",
\* each with any times: MaxItems demands and times together.
PlanInit ==
    /\ plan_pc = "start"
    /\ \E ds \in SeqsUpTo(DemandShapes, MaxItems) :
           /\ demands = ds
           /\ \E ta \in SeqsUpTo(Intervals, MaxItems - Len(ds)) :
                  \E tb \in SeqsUpTo(Intervals, MaxItems - Len(ds) - Len(ta)) :
                      shift_templates =
                          <<[id |-> <<"a">>, cost |-> 1, times |-> TimeList(ta)],
                            [id |-> <<"b">>, cost |-> 1, times |-> TimeList(tb),
                             qualification |-> "q1"]>>
    /\ concrete_shifts = <<>>
    /\ periods = <<>>
    /\ input_options = <<>>
    /\ ortools_model = <<>>
    /\ pyomo_model = <<>>
    /\ MergeIdle
    /\ AssignIdle
    /\ SideBySide
    /\ as_read = [shifts |-> shift_templates, demands |-> demands,
                  options |-> input_options]

PlanNext == convert_data \/ get_concrete_shifts \/ get_demand_coverage_periods

SpecPlan == PlanInit /\ [][PlanNext]_vars

Decomposed == plan_pc = "decomposed"

\* The qualifications appearing in the demand set
DemandQualifications == {demands[k].qualification : k \in DOMAIN demands}

\* The positions of the demands, concrete shifts and periods of qualification q
DemandsWith(q) == {k \in DOMAIN demands : demands[k].qualification = q}
ConcreteWith(q) == {k \in DOMAIN concrete_shifts : concrete_shifts[k].qualification = q}
PeriodsWith(q) == {n \in DOMAIN periods : periods[n].qualification = q}

\* The hour [t, t + 1) lies in the interval of y.
Hour(t, y) == y.start_time <= t /\ t < y.end_time

\* C5: for every qualification of the demand set, the retained periods are
\* proper intervals that pairwise share no hour, and an hour lies in some
\* retained period exactly when it lies in some demand of that qualification.
PeriodsPartitionDemand ==
    Decomposed =>
        \A q \in DemandQualifications :
            /\ \A n \in PeriodsWith(q) : periods[n].start_time < periods[n].end_time
            /\ \A n \in PeriodsWith(q) : \A m \in PeriodsWith(q) :
                   n # m => \/ periods[n].end_time <= periods[m].start_time
                            \/ periods[m].end_time <= periods[n].start_time
            /\ \A t \in 0..(MaxTime - 1) :
                   (\E n \in PeriodsWith(q) : Hour(t, periods[n]))
                   <=> (\E k \in DemandsWith(q) : Hour(t, demands[k]))

\* C5 witness: two demands of one qualification that overlap in part, cut into
\* three periods.
PeriodsPartitionDemandWitness ==
    /\ Decomposed
    /\ \E q \in DemandQualifications :
           /\ \E k \in DemandsWith(q) : \E j \in DemandsWith(q) :
                  /\ demands[k].start_time < demands[j].start_time
                  /\ demands[j].start_time < demands[k].end_time
                  /\ demands[k].end_time < demands[j].end_time
           /\ Cardinality(PeriodsWith(q)) = 3

\* C6: every concrete shift and every demand of the qualification of a
\* retained period either contains the whole period or shares no hour with it.
PeriodsAreAtomic ==
    Decomposed =>
        \A n \in DOMAIN periods :
            LET p == periods[n]
                whole(y) == y.start_time <= p.start_time /\ y.end_time >= p.end_time
                apart(y) == y.end_time <= p.start_time \/ y.start_time >= p.end_time
            IN  /\ \A k \in ConcreteWith(p.qualification) :
                       whole(concrete_shifts[k]) \/ apart(concrete_shifts[k])
                /\ \A k \in DemandsWith(p.qualification) :
                       whole(demands[k]) \/ apart(demands[k])

\* C6 witness: a period cut out of a longer demand by the start of a shift of
\* the same qualification that begins inside the demand.
PeriodsAreAtomicWitness ==
    /\ Decomposed
    /\ \E n \in DOMAIN periods :
           \E k \in ConcreteWith(periods[n].qualification) :
               \E j \in DemandsWith(periods[n].qualification) :
                   /\ demands[j].start_time < concrete_shifts[k].start_time
                   /\ concrete_shifts[k].start_time < demands[j].end_time
                   /\ periods[n].start_time = demands[j].start_time
                   /\ periods[n].end_time = concrete_shifts[k].start_time

\* The boundary points of the demands and concrete shifts of qualification q
PointsOf(q) ==
    {demands[k].start_time : k \in DemandsWith(q)}
    \cup {demands[k].end_time : k \in DemandsWith(q)}
    \cup {concrete_shifts[k].start_time : k \in ConcreteWith(q)}
    \cup {concrete_shifts[k].end_time : k \in ConcreteWith(q)}

\* The adjacent pairs of the sorted, de-duplicated boundary points
CandidatesOf(q) ==
    {c \in PointsOf(q) \X PointsOf(q) :
        /\ c[1] < c[2]
        /\ ~\E t \in PointsOf(q) : c[1] < t /\ t < c[2]}

\* C7: per qualification q of the demand set the retained periods are, once
\* each, exactly the adjacent pairs of boundary points of the demands and
\* shifts of q that lie inside some demand of q; each carries exactly the
\* demands of q containing it and exactly the concrete shifts of qualification
\* q containing it; no period has a qualification outside the demand set.
DecomposerContract ==
    Decomposed =>
        /\ \A n \in DOMAIN periods : periods[n].qualification \in DemandQualifications
        /\ \A q \in DemandQualifications :
               /\ {<<periods[n].start_time, periods[n].end_time>> : n \in PeriodsWith(q)}
                    = {c \in CandidatesOf(q) :
                          \E k \in DemandsWith(q) :
                              /\ demands[k].start_time <= c[1]
                              /\ demands[k].end_time >= c[2]}
               /\ \A n \in PeriodsWith(q) : \A m \in PeriodsWith(q) :
                      n # m => periods[n].start_time # periods[m].start_time
               /\ \A n \in PeriodsWith(q) :
                      /\ periods[n].demands =
                            SelectSeq(demands, LAMBDA d :
                                /\ d.qualification = q
                                /\ d.start_time <= periods[n].start_time
                                /\ d.end_time >= periods[n].end_time)
                      /\ periods[n].covering_shifts =
                            SelectSeq(concrete_shifts, LAMBDA s :
                                /\ s.qualification = q
                                /\ s.start_time <= periods[n].start_time
                                /\ s.end_time >= periods[n].end_time)

\* C7 witness: one demand and two shifts that each cover one half of it (the
\* demand [08:00,20:00) with shifts [08:00,14:00) and [14:00,20:00)): exactly
\* two periods, each with its own covering shift and the same demand.
DecomposerContractWitness ==
    /\ Decomposed
    /\ Len(demands) = 1
    /\ Len(concrete_shifts) = 2
    /\ concrete_shifts[1].qualification = demands[1].qualification
    /\ concrete_shifts[2].qualification = demands[1].qualification
    /\ concrete_shifts[1].start_time = demands[1].start_time
    /\ concrete_shifts[1].end_time = concrete_shifts[2].start_time
    /\ concrete_shifts[2].end_time = demands[1].end_time
    /\ Len(periods) = 2
    /\ periods[1].covering_shifts = <<concrete_shifts[1]>>
    /\ periods[2].covering_shifts = <<concrete_shifts[2]>>
    /\ periods[1].demands = <<demands[1]>>
    /\ periods[2].demands = <<demands[1]>>

\* The entries of a list
Entries(list) == {list[k] : k \in DOMAIN list}

\* Two retained periods of one qualification, the second beginning where the
\* first ends
Touching(n, m) ==
    /\ periods[n].qualification = periods[m].qualification
    /\ periods[n].end_time = periods[m].start_time

\* C27: every retained period is a maximal slice: of any two retained periods
\* of one qualification of which one begins where the other ends, the sets of
\* covering shifts differ or the sets of contributing demands differ, so that
\* joining the two would not be a slice with constant sets.
PeriodsAreMaximal ==
    Decomposed =>
        \A n \in DOMAIN periods : \A m \in DOMAIN periods :
            Touching(n, m) =>
                \/ Entries(periods[n].covering_shifts) # Entries(periods[m].covering_shifts)
                \/ Entries(periods[n].demands) # Entries(periods[m].demands)

\* C27 witness: two touching periods with the same contributing demand, kept
\* apart by a shift that covers one of them only, and in the same run two
\* touching periods under one covering shift with different demands.
PeriodsAreMaximalWitness ==
    /\ Decomposed
    /\ \E n \in DOMAIN periods : \E m \in DOMAIN periods :
           /\ Touching(n, m)
           /\ periods[n].demands = periods[m].demands
           /\ periods[n].covering_shifts # periods[m].covering_shifts
    /\ \E n \in DOMAIN periods : \E m \in DOMAIN periods :
           /\ Touching(n, m)
           /\ periods[n].covering_shifts = periods[m].covering_shifts
           /\ periods[n].covering_shifts # <<>>
           /\ periods[n].demands # periods[m].demands

(***************************************************************************)
(* Planning model specification: the whole of solve of both planning apps  *)
(* up to the call of the solver, on inputs of three families.              *)
(***************************************************************************)

\* Ids of templates and of times; some contain the separator "_".
TemplateIds == {<<"a">>, <<"a", "_", "1">>, <<"b">>}
TimeIds == {<<"1">>, <<"1", "_", "1">>, <<"2">>}

\* No two entries of the list have the same id.
DistinctIds(list) ==
    \A i \in DOMAIN list : \A j \in DOMAIN list : i # j => list[i].id # list[j].id

\* The k-th time of a template covers the k-th hour.
SlotAt(k, fields) ==
    [f \in DOMAIN fields \cup {"start_time", "end_time"} |->
        IF f = "start_time" THEN k - 1
        ELSE IF f = "end_time" THEN k
        ELSE fields[f]]

\* One demand over the whole horizon, for no qualification
WholeDemand == <<[start_time |-> 0, end_time |-> MaxPlanTime, count |-> 1]>>

\* Up to MaxTemplates templates with up to MaxSlots times each and any ids,
\* distinct among the templates and among the times of one template.
IdInputs ==
    /\ \E ts \in SeqsUpTo(
               {[id |-> i, cost |-> 1, times |-> [k \in DOMAIN tids |->
                                                   SlotAt(k, [id |-> tids[k]])]] :
                   i \in TemplateIds,
                   tids \in {q \in SeqsUpTo(TimeIds, MaxSlots) :
                               \A m \in DOMAIN q : \A n \in DOMAIN q :
                                   m # n => q[m] # q[n]}},
               MaxTemplates) :
           /\ DistinctIds(ts)
           /\ shift_templates = ts
    /\ demands = WholeDemand
    /\ input_options = <<>>

\* One template with up to MaxSlots times; the template and every time
\* define or leave out min_workers, max_workers and cost, with values that
\* differ between the levels; the template has a qualification or none.
DefaultInputs ==
    /\ \E tf \in OptionalFields([min_workers |-> 1, max_workers |-> 2, cost |-> 3,
                                  qualification |-> "q1"]) :
       \E sf \in SeqsUpTo(OptionalFields([min_workers |-> 2, max_workers |-> 3,
                                          cost |-> 4]), MaxSlots) :
           shift_templates =
               <<[f \in DOMAIN tf \cup {"id", "times"} |->
                     IF f = "id" THEN <<"a">>
                     ELSE IF f = "times"
                          THEN [k \in DOMAIN sf |->
                                   SlotAt(k, Put(sf[k], "id", <<Digits[k]>>))]
                          ELSE tf[f]]>>
    /\ demands = WholeDemand
    /\ input_options = <<>>

\* Demands for no qualification with the counts 1, 2, ..., one template with
\* any times, MaxItems demands and times together, and any combination of the
\* two supply costs.
CoverageInputs ==
    /\ \E ds \in SeqsUpTo(IntervalsUpTo(MaxPlanTime), MaxItems) :
           /\ demands = [k \in DOMAIN ds |-> Put(ds[k], "count", k)]
           /\ \E ta \in SeqsUpTo(IntervalsUpTo(MaxPlanTime), MaxItems - Len(ds)) :
                  shift_templates = <<[id |-> <<"a">>, cost |-> 1,
                                       times |-> TimeList(ta)]>>
    /\ input_options \in OptionalFields([under_supply_cost |-> 2,
                                          over_supply_cost |-> 3])

\* Moments up to a day and an hour after the start of the horizon
LongTimes == {0, 1, 23, 24, 25}

\* One demand and one template with one time, each over any two moments up to
\* a day and an hour apart, with both supply costs.
LongInputs ==
    /\ \E d \in LongTimes \X LongTimes : \E t \in LongTimes \X LongTimes :
           /\ d[1] < d[2]
           /\ t[1] < t[2]
           /\ demands = <<[start_time |-> d[1], end_time |-> d[2], count |-> 1]>>
           /\ shift_templates =
                  <<[id |-> <<"a">>, cost |-> 1,
                     times |-> <<[id |-> <<"1">>, start_time |-> t[1],
                                  end_time |-> t[2]]>>]>>
    /\ input_options = [under_supply_cost |-> 2, over_supply_cost |-> 3]

PlanSolveInit ==
    /\ plan_pc = "start"
    /\ IdInputs \/ DefaultInputs \/ CoverageInputs \/ LongInputs
    /\ concrete_shifts = <<>>
    /\ periods = <<>>
    /\ ortools_model = <<>>
    /\ pyomo_model = <<>>
    /\ MergeIdle
    /\ AssignIdle
    /\ SideBySide
    /\ as_read = [shifts |-> shift_templates, demands |-> demands,
                  options |-> input_options]

PlanSolveNext ==
    \/ convert_data
    \/ get_concrete_shifts
    \/ get_demand_coverage_periods
    \/ solve_ortools
    \/ solve_pyomo

SpecPlanSolve == PlanSolveInit /\ [][PlanSolveNext]_vars

\* get_concrete_shifts has returned its list.
Expanded == plan_pc \in {"expanded", "decomposed"}

\* C13 (the claim as stated): the ids of the concrete shifts are pairwise
\* different, and the model has one planned-count variable for every
\* concrete shift.
UniqueConcreteIds ==
    Expanded =>
        /\ \A i \in DOMAIN concrete_shifts : \A j \in DOMAIN concrete_shifts :
               i # j => concrete_shifts[i].id # concrete_shifts[j].id
        /\ ortools_model # <<>> =>
               Cardinality(DOMAIN ortools_model.x_assign) = Len(concrete_shifts)

\* The number of times of the templates before the t-th
SlotsBefore(t) ==
    Cardinality(UNION {{<<u, k>> : k \in DOMAIN shift_templates[u].times} :
                          u \in 1..(t - 1)})

\* C14: the list of concrete shifts has one entry for every template and
\* time of that template, the templates in their order and the times of a
\* template in theirs, so that it is as long as the templates have times
\* together and a template without times adds nothing.
ExpanderOrder ==
    Expanded =>
        /\ Len(concrete_shifts) = SlotsBefore(Len(shift_templates) + 1)
        /\ \A t \in DOMAIN shift_templates : \A k \in DOMAIN shift_templates[t].times :
               LET s == concrete_shifts[SlotsBefore(t) + k]
                   time == shift_templates[t].times[k]
               IN  /\ s.shift_id = shift_templates[t].id
                   /\ s.time_id = time.id
                   /\ s.start_time = time.start_time
                   /\ s.end_time = time.end_time

\* C14 witness: a template with two times before a template with one time,
\* expanded into three concrete shifts.
ExpanderOrderWitness ==
    /\ Expanded
    /\ Len(shift_templates) = 2
    /\ Len(shift_templates[1].times) = 2
    /\ Len(shift_templates[2].times) = 1
    /\ Len(concrete_shifts) = 3
    /\ concrete_shifts[3].shift_id = shift_templates[2].id

\* C15: every field of a concrete shift is the value of its time when the
\* time defines the field, otherwise the value of its template when the
\* template defines it, otherwise the default: 0 for min_workers, -1 for
\* max_workers, none for cost; the qualification is that of the template, or
\* "" when the template has none.
DefaultPrecedence ==
    Expanded =>
        \A t \in DOMAIN shift_templates : \A k \in DOMAIN shift_templates[t].times :
            LET s == concrete_shifts[SlotsBefore(t) + k]
                shift == shift_templates[t]
                time == shift.times[k]
                resolved(f, val) ==
                    /\ f \in DOMAIN time => val = time[f]
                    /\ (f \notin DOMAIN time /\ f \in DOMAIN shift) => val = shift[f]
            IN  /\ resolved("min_workers", s.min_workers)
                /\ resolved("max_workers", s.max_workers)
                /\ resolved("cost", s.cost)
                /\ ("min_workers" \notin DOMAIN time \cup DOMAIN shift) => s.min_workers = 0
                /\ ("max_workers" \notin DOMAIN time \cup DOMAIN shift) => s.max_workers = -1
                /\ "cost" \in DOMAIN time \cup DOMAIN shift
                /\ "qualification" \in DOMAIN shift => s.qualification = shift.qualification
                /\ "qualification" \notin DOMAIN shift => s.qualification = ""

\* C15 witness: a concrete shift whose min_workers is defined by the time and
\* by the template and is the time's, whose cost is the template's, and
\* whose max_workers is defined by neither, next to a concrete shift of the
\* same template with the template's min_workers.
DefaultPrecedenceWitness ==
    /\ Expanded
    /\ Len(shift_templates) = 1
    /\ Len(concrete_shifts) = 2
    /\ "min_workers" \in DOMAIN shift_templates[1]
    /\ "min_workers" \in DOMAIN shift_templates[1].times[1]
    /\ shift_templates[1].min_workers # shift_templates[1].times[1].min_workers
    /\ concrete_shifts[1].min_workers = shift_templates[1].times[1].min_workers
    /\ "cost" \notin DOMAIN shift_templates[1].times[1]
    /\ concrete_shifts[1].cost = shift_templates[1].cost
    /\ concrete_shifts[1].max_workers = -1
    /\ "min_workers" \notin DOMAIN shift_templates[1].times[2]
    /\ concrete_shifts[2].min_workers = shift_templates[1].min_workers

\* C16: when some time of some template has no cost and the template has
\* none either, get_concrete_shifts ends in an error: there is no list of
\* concrete shifts, no period, and neither app builds a variable or a
\* constraint, then or later.
MissingCostAborts ==
    LET missing == \E t \in DOMAIN shift_templates :
                       \E k \in DOMAIN shift_templates[t].times :
                           /\ "cost" \notin DOMAIN shift_templates[t].times[k]
                           /\ "cost" \notin DOMAIN shift_templates[t]
    IN  missing =>
            /\ plan_pc \in {"start", "converted", "error"}
            /\ concrete_shifts = <<>>
            /\ periods = <<>>
            /\ ortools_model = <<>>
            /\ pyomo_model = <<>>

\* C16 witness: the run has ended in the error for a template without cost
\* of which the first time has a cost and the second has none.
MissingCostAbortsWitness ==
    /\ plan_pc = "error"
    /\ Len(shift_templates) = 1
    /\ "cost" \notin DOMAIN shift_templates[1]
    /\ Len(shift_templates[1].times) = 2
    /\ "cost" \in DOMAIN shift_templates[1].times[1]
    /\ "cost" \notin DOMAIN shift_templates[1].times[2]

\* Both apps have built their models.
BothBuilt ==
    /\ ortools_model # <<>>
    /\ pyomo_model # <<>>
    /\ "constraints" \in DOMAIN pyomo_model

\* The constraints of the periods in a model, in the order they were added.
CoverageOf(model) ==
    SelectSeq(model.constraints, LAMBDA c : c.name[1] = "DemandCover")

\* C20 (the claim as stated): in the model of either app there is exactly one
\* coverage constraint for every retained period, in the order of the
\* periods: the sum of the planned counts of the covering shifts of the
\* period, and of the under-supply variable of the period when an
\* under-supply cost is configured, equals the sum of the counts of the
\* contributing demands; the coverage constraints of the two models are the
\* same.
CoverageConstraints ==
    BothBuilt =>
        /\ \A model \in {ortools_model, pyomo_model} :
               LET added == CoverageOf(model)
               IN  /\ Len(added) = Len(periods)
                   /\ \A n \in DOMAIN periods :
                          LET p == periods[n]
                              shifts_of == [k \in DOMAIN p.covering_shifts |->
                                  [coef |-> 1,
                                   var |-> <<"x_assign", p.covering_shifts[k].id>>]]
                              slack == IF "under_supply_cost" \in DOMAIN input_options
                                       THEN <<[coef |-> 1, var |-> <<"x_under", n>>]>>
                                       ELSE <<>>
                          IN  /\ added[n].terms = shifts_of \o slack
                              /\ added[n].sense = "=="
                              /\ added[n].rhs_terms = <<>>
                              /\ added[n].rhs =
                                     SumOver([k \in DOMAIN p.demands |-> p.demands[k].count],
                                             Len(p.demands))
        /\ CoverageOf(ortools_model) = CoverageOf(pyomo_model)

\* The constraints of a model with one of the given names
Named(model, names) ==
    SelectSeq(model.constraints, LAMBDA c : c.name \in names)

\* end - start of a period or of a concrete shift, in hours
FullLength(y) == y.end_time - y.start_time

\* C29 (the claim as stated): in the model of either app the hours required
\* in the over-supply balance are the sum of the full lengths of the retained
\* periods, a shift is credited its full length end - start, and the
\* under-supply of a period is weighted by the full length of the period,
\* also for lengths of 24 hours and more.
FullLengthHours ==
    BothBuilt =>
        \A model \in {ortools_model, pyomo_model} :
            /\ "over_supply_cost" \in DOMAIN input_options =>
                   LET over == Named(model, {<<"OverSupply">>, <<"over_supply">>})
                   IN  /\ Len(over) = 1
                       /\ over[1].rhs =
                              0 - SumOver([n \in DOMAIN periods |->
                                              FullLength(periods[n])], Len(periods))
                       /\ over[1].rhs_terms =
                              [k \in DOMAIN concrete_shifts |->
                                  [coef |-> FullLength(concrete_shifts[k]),
                                   var |-> <<"x_assign", concrete_shifts[k].id>>]]
            /\ "under_supply_cost" \in DOMAIN input_options =>
                   LET under == Named(model, {<<"UnderSupply">>, <<"under_supply">>})
                   IN  /\ Len(under) = 1
                       /\ under[1].rhs_terms =
                              [n \in DOMAIN periods |->
                                  [coef |-> FullLength(periods[n]),
                                   var |-> <<"x_under", n>>]]

(***************************************************************************)
(* Repeated-call specification: the conversion of the input data by        *)
(* convert_input and by convert_data, and solve called again with the      *)
(* data of the call before.                                                *)
(***************************************************************************)
RecompileInit ==
    /\ \/ /\ pc = "start"
          /\ PreferenceInputs \/ BoundInputs \/ AvailabilityInputs
          /\ rules_per_worker = <<>>
          /\ x_assign = <<>>
          /\ constraints = <<>>
          /\ objective = <<>>
          /\ pyomo_assign = <<>>
          /\ as_read = [workers |-> workers, shifts |-> shifts, rules |-> rules]
          /\ PlanIdle
       \/ /\ plan_pc = "start"
          /\ CoverageInputs
          /\ concrete_shifts = <<>>
          /\ periods = <<>>
          /\ ortools_model = <<>>
          /\ pyomo_model = <<>>
          /\ as_read = [shifts |-> shift_templates, demands |-> demands,
                        options |-> input_options]
          /\ AssignIdle
    /\ MergeIdle
    /\ SideBySide

RecompileNext == convert_input \/ solve_again \/ convert_data \/ plan_again

SpecRecompile == RecompileInit /\ [][RecompileNext]_vars

\* The hour [t, t + 1) lies in some interval of the list.
Covered(t, av) == \E k \in DOMAIN av : Hour(t, av[k])

\* C25 (the claim as stated): the compilers are pure functions: the input
\* records stay as they were read, timestamps included, and compiling the
\* same input data a second time succeeds.
CompilersArePure ==
    /\ timestamps = "str"
    /\ pc # "idle" =>
           /\ workers = as_read.workers
           /\ rules = as_read.rules
           /\ shifts = as_read.shifts
           /\ pc # "type_error"
    /\ plan_pc # "idle" =>
           /\ shift_templates = as_read.shifts
           /\ demands = as_read.demands
           /\ plan_pc # "type_error"

\* C25 (amended): the compilers convert the input records in place.  Once
\* compiled, the timestamps are datetime objects, every rule carries
\* min_shifts and max_shifts, every worker carries preferences and an
\* availability list that covers the hours of the list read, and every demand
\* carries a qualification; the number and order of the records and every
\* field that was read, the availability lists apart, are unchanged.
\* Compiling the same input data a second time fails with a TypeError when
\* the data hold any timestamp, and leaves the records as they are; without
\* any timestamp it succeeds.
CompilersConvertInPlace ==
    LET compiled == timestamps = "datetime"
        same(now, was, open) ==
            /\ DOMAIN was \subseteq DOMAIN now
            /\ DOMAIN now \subseteq DOMAIN was \cup open
            /\ \A f \in DOMAIN was : now[f] = was[f]
    IN  /\ pc # "idle" =>
               /\ pc # "start" => compiled
               /\ shifts = as_read.shifts
               /\ Len(rules) = Len(as_read.rules)
               /\ \A k \in DOMAIN rules :
                      /\ same(rules[k], as_read.rules[k],
                              IF compiled THEN {"min_shifts", "max_shifts"} ELSE {})
                      /\ compiled => {"min_shifts", "max_shifts"} \subseteq DOMAIN rules[k]
               /\ Len(workers) = Len(as_read.workers)
               /\ \A k \in DOMAIN workers :
                      LET now == workers[k]
                          was == as_read.workers[k]
                      IN  /\ same([f \in DOMAIN now \ {"availability"} |-> now[f]],
                                  [f \in DOMAIN was \ {"availability"} |-> was[f]],
                                  IF compiled THEN {"preferences"} ELSE {})
                          /\ compiled => "preferences" \in DOMAIN now
                          /\ \A t \in 0..(MaxTime - 1) :
                                 Covered(t, now.availability)
                                     <=> Covered(t, was.availability)
               /\ (calls >= 2 /\ pc # "start") =>
                      pc = "type_error" <=> HasTimestamps(workers, shifts)
        /\ plan_pc # "idle" =>
               /\ plan_pc # "start" => compiled
               /\ shift_templates = as_read.shifts
               /\ Len(demands) = Len(as_read.demands)
               /\ \A k \in DOMAIN demands :
                      /\ same(demands[k], as_read.demands[k],
                              IF compiled THEN {"qualification"} ELSE {})
                      /\ compiled => "qualification" \in DOMAIN demands[k]
               /\ (calls >= 2 /\ plan_pc # "start") =>
                      plan_pc = "type_error"
                          <=> HasPlanTimestamps(shift_templates, demands)

\* C25 witness: the second call has failed with the TypeError on data that the
\* first call changed: a rule that gained its defaults and a worker who
\* gained preferences.
CompilersConvertInPlaceWitness ==
    /\ calls = 2
    /\ pc = "type_error"
    /\ \E k \in DOMAIN rules : rules[k] # as_read.rules[k]
    /\ \E k \in DOMAIN workers :
           /\ "preferences" \notin DOMAIN as_read.workers[k]
           /\ workers[k].preferences = <<>>
    /\ \E k \in DOMAIN workers : "preferences" \in DOMAIN as_read.workers[k]

(***************************************************************************)
(* Run specification: one app, asked for one provider, runs solve from its *)
(* first line to the output.                                               *)
(***************************************************************************)

\* Solver identifiers: the default of the OR-Tools apps, those of the table
\* of the Pyomo apps, and one that no app knows
Providers == {"SCIP", "cbc", "glpk", "scip", "highs"}

\* One demand for one worker in the first hour; one template with a cost of
\* 0 or 1, with or without a minimum of 2 and a maximum of 0 workers, and
\* 1..MaxSlots times; or two templates whose single times get the same
\* concrete id; with or without a cost of under supply.
RunPlanInputs ==
    /\ demands = <<[start_time |-> 0, end_time |-> 1, count |-> 1]>>
    /\ \/ \E tf \in OptionalFields([min_workers |-> 2, max_workers |-> 0]) :
          \E c \in {0, 1} : \E n \in 1..MaxSlots :
              shift_templates =
                  <<[f \in DOMAIN tf \cup {"id", "cost", "times"} |->
                        IF f = "id" THEN <<"a">>
                        ELSE IF f = "cost" THEN c
                        ELSE IF f = "times"
                             THEN [k \in 1..n |-> SlotAt(k, [id |-> <<Digits[k]>>])]
                             ELSE tf[f]]>>
       \/ shift_templates =
              <<[id |-> <<"a">>, cost |-> 1,
                 times |-> <<SlotAt(1, [id |-> <<"1", "_", "1">>])>>],
                [id |-> <<"a", "_", "1">>, cost |-> 1,
                 times |-> <<SlotAt(1, [id |-> <<"1">>])>>]>>
    /\ input_options \in OptionalFields([under_supply_cost |-> 2])

RunInit ==
    /\ app \in {"ortools", "pyomo"}
    /\ provider \in Providers
    /\ solver_result = <<>>
    /\ output = <<>>
    /\ timestamps = "str"
    /\ calls = 1
    /\ \/ /\ pc = "init"
          /\ PreferenceInputs \/ BoundInputs
          /\ AssignFresh
       \/ /\ plan_pc = "init"
          /\ RunPlanInputs
          /\ concrete_shifts = <<>>
          /\ periods = <<>>
          /\ ortools_model = <<>>
          /\ pyomo_model = <<>>
          /\ as_read = [shifts |-> shift_templates, demands |-> demands,
                        options |-> input_options]
          /\ AssignIdle
          /\ MergeIdle

RunNext ==
    \/ check_provider
    \/ convert_input
    \/ solve
    \/ solve_pyomo_assignment
    \/ ortools_assignment_result
    \/ pyomo_assignment_result
    \/ plan_check_provider
    \/ convert_data
    \/ get_concrete_shifts
    \/ get_demand_coverage_periods
    \/ solve_ortools
    \/ solve_pyomo
    \/ ortools_planning_result
    \/ pyomo_planning_result

SpecRun == RunInit /\ [][RunNext]_vars

\* The solver has returned and reports a solution.
SolutionReported ==
    /\ solver_result # <<>>
    /\ solver_result.status \in {"OPTIMAL", "FEASIBLE", "optimal", "feasible"}

\* The (worker, shift) pairs of the returned schedule
ReturnedPairs ==
    IF output.solution = <<>> THEN {}
    ELSE {<<output.solution.assigned_shifts[n].worker_id,
            output.solution.assigned_shifts[n].shift_id>> :
              n \in DOMAIN output.solution.assigned_shifts}

\* The concrete shifts of the returned schedule, each with its count
ReturnedCounts ==
    {<<output.solution.planned_shifts[n].id, output.solution.planned_shifts[n].count>> :
        n \in DOMAIN output.solution.planned_shifts}

\* C22: whenever the solver reports a solution, the returned schedule lists
\* exactly the (worker, shift) pairs with a value above 0.5, respectively
\* exactly the concrete shifts with a planned count above 0.5, each with that
\* count; in every app and whatever the value of the objective.
ScheduleListsSolution ==
    SolutionReported =>
        /\ pc = "returned" =>
               ReturnedPairs = {key \in DOMAIN solver_result.values :
                                   2 * solver_result.values[key] > 1}
        /\ plan_pc = "returned" =>
               ReturnedCounts =
                   {<<id, solver_result.values.x_assign[id]>> :
                        id \in {i \in DOMAIN solver_result.values.x_assign :
                                   2 * solver_result.values.x_assign[i] > 1}}

\* The solver of an OR-Tools app has returned without a solution.
NoSolutionReported ==
    /\ app = "ortools"
    /\ solver_result # <<>>
    /\ solver_result.status \notin {"OPTIMAL", "FEASIBLE"}

UnsupportedProviderFailsFirst ==
    /\ (app = "pyomo" /\ provider \notin SUPPORTED_PROVIDER_DURATIONS) =>
           /\ pc \in {"idle", "init", "unsupported"}
           /\ plan_pc \in {"idle", "init", "unsupported"}
    /\ (pc = "unsupported" \/ plan_pc = "unsupported") =>
           /\ timestamps = "str"
           /\ solver_result = <<>>
           /\ output = <<>>
    /\ pc = "unsupported" =>
           /\ workers = as_read.workers
           /\ shifts = as_read.shifts
           /\ rules = as_read.rules
           /\ rules_per_worker = <<>>
           /\ x_assign = <<>>
           /\ constraints = <<>>
           /\ objective = <<>>
           /\ pyomo_assign = <<>>
    /\ plan_pc = "unsupported" =>
           /\ shift_templates = as_read.shifts
           /\ demands = as_read.demands
           /\ input_options = as_read.options
           /\ concrete_shifts = <<>>
           /\ periods = <<>>
           /\ ortools_model = <<>>
           /\ pyomo_model = <<>>

\* A Pyomo app has refused a provider outside its table, for input data that
\* a conversion would change.
UnsupportedProviderFailsFirstWitness ==
    /\ app = "pyomo"
    /\ provider \notin SUPPORTED_PROVIDER_DURATIONS
    /\ \/ /\ pc = "unsupported"
          /\ \E k \in DOMAIN rules : RuleDefaults(rules[k]) # rules[k]
       \/ /\ plan_pc = "unsupported"
          /\ \E k \in DOMAIN demands : DemandConverted(demands[k]) # demands[k]

====
